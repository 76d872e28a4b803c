----------------------------- MODULE GamepadProofs -----------------------------
(* What TLAPS proves of Gamepad for every configuration and every stream of    *)
(* reports: the virtual gamepad never loses track of them, and which keys the  *)
(* keyboard keeps.                                                             *)
EXTENDS Gamepad, WellFoundedInduction, TLAPS

AllReports == [btns : SUBSET (Remappable \cup PlainButtons),
               trig : [Triggers -> 0 .. 2],
               dpad : SUBSET Arrows,
               ls : Nat, rs : Nat, gyro : Nat]

(* What a remap or a tap may inject.                                           *)
Injectable(c) == {t.code : t \in {x \in Targets(c) : x.type = "GamepadButton"}}

PadType ==
  /\ config \in Configs
  /\ prev_state \in AllReports
  /\ prev_injected \in SUBSET Injectable(config)
  /\ toggled \subseteq Layers
  /\ pad.trig \in [Triggers -> 0 .. 2]

(* What the base remaps suppress, they suppress in every report.               *)
BaseIsSuppressed == prev_state.btns = {} \/ Masks(BaseRemaps) \subseteq prev_suppressed

(* The inductive invariant of the gamepad's share.                             *)
PadInv == PadType /\ BaseIsSuppressed /\ PadShowsReport

--------------------------------------------------------------------------------
(* The gamepad is never out of step with the reports.                          *)

(* Sending only the buttons that differ takes the device from one set of       *)
(* buttons to the other, because no two buttons share a code.                  *)
LEMMA ButtonsDiff ==
  ASSUME config \in Configs,
         NEW P \in SUBSET (Remappable \cup PlainButtons),
         NEW S \in SUBSET (Remappable \cup PlainButtons)
  PROVE  ({PadCode(b) : b \in P} \ {PadCode(b) : b \in P \ S})
           \cup {PadCode(b) : b \in S \ P}
         = {PadCode(b) : b \in S}
<1>1. \A a, b \in Remappable \cup PlainButtons : PadCode(a) = PadCode(b) => a = b
  BY DistinctCodes DEF PadCode
<1> DEFINE codes(T) == {PadCode(b) : b \in T}
<1>2. ASSUME NEW c \in codes(S)
      PROVE  c \in (codes(P) \ codes(P \ S)) \cup codes(S \ P)
  <2>1. PICK b \in S : c = PadCode(b)
    BY <1>2
  <2>2. c \notin codes(P \ S)
    BY <1>1, <2>1
  <2> QED BY <2>1, <2>2
<1>3. ASSUME NEW c \in (codes(P) \ codes(P \ S)) \cup codes(S \ P)
      PROVE  c \in codes(S)
  OBVIOUS
<1> QED BY <1>2, <1>3

(* What is injected are buttons of the gamepad.                                *)
LEMMA InjectableType == \A c \in Configs : Injectable(c) \in SUBSET Remappable
BY GamepadAssumption DEF Injectable

LEMMA InitPadInv == Init => PadInv
<1> SUFFICES ASSUME Init PROVE PadInv
  OBVIOUS
<1>1. PadType
  BY DEF Init, PadType, AllReports, Centred
<1>2. Centred \in AllReports
  BY DEF AllReports, Centred
<1>3. PadShowsReport
  <2> DEFINE sent == Sent(Centred, {}, {}, {})
  <2>1. /\ sent.btns = {} /\ sent.dpad = {} /\ sent.ls = 0 /\ sent.rs = 0
        /\ sent.trig = Centred.trig
    <3>1. /\ sent.btns = (Centred.btns \ {}) \cup {}
          /\ sent.trig = [t \in Triggers |-> IF t \in {} THEN 0 ELSE Centred.trig[t]]
          /\ sent.dpad = (IF "dpad" \in {} THEN {} ELSE Centred.dpad)
          /\ sent.ls = (IF "ls" \in {} THEN 0 ELSE Centred.ls)
          /\ sent.rs = (IF "rs" \in {} THEN 0 ELSE Centred.rs)
      BY DEF Sent, Blank, Centred
    <3>2. [t \in Triggers |-> IF t \in {} THEN 0 ELSE Centred.trig[t]] = Centred.trig
      BY DEF Centred
    <3> HIDE DEF sent
    <3> QED BY <3>1, <3>2 DEF Centred
  <2> HIDE DEF sent
  <2>2. /\ pad.btns = {} /\ pad.dpad = {} /\ pad.ls = 0 /\ pad.rs = 0
        /\ pad.trig = Centred.trig
    BY DEF Init
  <2>3. pad.btns = {PadCode(b) : b \in sent.btns}
    BY <2>1, <2>2
  <2> QED BY <2>1, <2>2, <2>3 DEF Init, PadShowsReport, sent
<1>4. BaseIsSuppressed
  BY DEF Init, Centred, BaseIsSuppressed
<1> QED BY <1>1, <1>3, <1>4 DEF PadInv

(* A set of layers that is not empty has a first one in the order of the walk. *)
LEMMA FirstExists ==
  ASSUME NEW rank \in [Layers -> Nat], NEW S \in SUBSET Layers, S # {}
  PROVE  \E l \in S : \A m \in S : rank[l] <= rank[m]
<1> DEFINE R == OpToRel(<, Nat)
           T == {rank[l] : l \in S}
<1>1. IsWellFoundedOn(R, Nat)
  BY NatLessThanWellFounded
<1>2. T \subseteq Nat /\ T # {}
  OBVIOUS
<1>3. PICK x \in T : \A y \in T : ~ (<<y, x>> \in R)
  <2> HIDE DEF R, T
  <2> QED BY <1>1, <1>2, WFMin
<1>4. ASSUME NEW y \in T PROVE x <= y
  <2>1. <<y, x>> \in R <=> y < x
    BY <1>2 DEF OpToRel
  <2>2. x \in Nat /\ y \in Nat /\ ~ (<<y, x>> \in R)
    BY <1>2, <1>3
  <2> HIDE DEF R, T
  <2> QED BY <2>1, <2>2
<1>5. PICK l \in S : x = rank[l]
  BY <1>3
<1> QED BY <1>4, <1>5

(* The active layer, when there is one, is one of the configuration's.         *)
LEMMA ActiveInLayers ==
  config \in Configs /\ toggled \subseteq Layers /\ InLayer => ActiveLayer \in Layers
<1> SUFFICES ASSUME config \in Configs, toggled \subseteq Layers, InLayer
             PROVE  ActiveLayer \in Layers
  OBVIOUS
<1>1. L!Live \in SUBSET Layers /\ L!Live # {}
  BY DEF InLayer, ActiveLayer, L!ActiveLayer, L!Live
<1>2. config.rank \in [Layers -> Nat]
  BY LayerAssumption DEF L!ConfigAssumption
<1>3. \E l \in L!Live : \A m \in L!Live : config.rank[l] <= config.rank[m]
  BY <1>1, <1>2, FirstExists
<1>4. L!FirstOf(L!Live) \in L!Live
  BY <1>3 DEF L!FirstOf
<1> QED BY <1>1, <1>4 DEF ActiveLayer, L!ActiveLayer

(* Where no configured layer has the gyro drive the right stick none does.     *)
LEMMA NoGyroStick ==
  config \in Configs /\ toggled \subseteq Layers /\ ~GyroStick(config)
    => EffectiveGyro # "joystick"
<1> SUFFICES ASSUME config \in Configs, toggled \subseteq Layers, ~GyroStick(config)
             PROVE  EffectiveGyro # "joystick"
  OBVIOUS
<1>1. config.gyro # "joystick" /\ \A l \in Layers : config.layers[l].gyro # "joystick"
  BY DEF GyroStick
<1>2. CASE InLayer
  BY <1>1, <1>2, ActiveInLayers DEF EffectiveGyro, Effective, Active
<1>3. CASE ~InLayer
  BY <1>1, <1>3 DEF EffectiveGyro
<1> QED BY <1>2, <1>3

(* Where the targets of a configuration come from.                             *)
LEMMA TargetKinds ==
  ASSUME NEW c
  PROVE  /\ \A b \in DOMAIN c.button_remaps : c.button_remaps[b] \in Targets(c)
         /\ \A l \in Layers : \A b \in DOMAIN c.layers[l].remap :
              c.layers[l].remap[b] \in Targets(c)
         /\ \A l \in Layers : c.layers[l].tap # NoTarget => c.layers[l].tap \in Targets(c)
<1>1. RemapTargets(c.button_remaps) \subseteq Targets(c) /\ TapTargets(c) \subseteq Targets(c)
  BY DEF Targets
<1>2. \A l \in Layers : RemapTargets(c.layers[l].remap) \subseteq Targets(c)
  BY DEF Targets
<1>3. \A b \in DOMAIN c.button_remaps : c.button_remaps[b] \in RemapTargets(c.button_remaps)
  BY DEF RemapTargets
<1>4. \A l \in Layers : \A b \in DOMAIN c.layers[l].remap :
        c.layers[l].remap[b] \in RemapTargets(c.layers[l].remap)
  BY DEF RemapTargets
<1>5. \A l \in Layers : c.layers[l].tap # NoTarget => c.layers[l].tap \in TapTargets(c)
  BY DEF TapTargets
<1> QED BY <1>1, <1>2, <1>3, <1>4, <1>5

(* Only what the configuration names is ever injected.                         *)
LEMMA ButtonTargetsType ==
  ASSUME NEW remap, NEW from, NEW s, \A b \in from : remap[b] \in Targets(config)
  PROVE  ButtonTargets(remap, from, s) \in SUBSET Injectable(config)
BY DEF ButtonTargets, Injectable

(* The taps that fire are those of configured layers.                          *)
LEMMA TapsAreTargets ==
  \A r : \A t \in Taps(r) : \E l \in Layers : t = config.layers[l].tap /\ t # NoTarget
<1>1. \A r : L!Tapped(config.rank, ActiveLayer, Pressed(r)) \subseteq Layers
  BY DEF L!Tapped, L!HoldLayers
<1> QED BY <1>1 DEF Taps

(* The remaps of the active layer are those of a configured one.               *)
LEMMA LayerRemapIsLayers ==
  config \in Configs /\ toggled \subseteq Layers
    => LayerRemaps = {} \/ \E l \in Layers : LayerRemap = config.layers[l].remap
<1>1. CASE InLayer
  BY <1>1, ActiveInLayers DEF LayerRemap, Active
<1>2. CASE ~InLayer
  BY <1>2 DEF LayerRemaps, LayerRemap
<1> QED BY <1>1, <1>2

LEMMA LayerTargets ==
  config \in Configs /\ toggled \subseteq Layers
    => \A b \in LayerRemaps : LayerRemap[b] \in Targets(config)
<1> SUFFICES ASSUME config \in Configs, toggled \subseteq Layers, NEW b \in LayerRemaps
             PROVE  LayerRemap[b] \in Targets(config)
  OBVIOUS
<1>1. PICK l \in Layers : LayerRemap = config.layers[l].remap
  BY LayerRemapIsLayers
<1>2. b \in DOMAIN config.layers[l].remap
  BY <1>1 DEF LayerRemaps
<1> QED BY <1>1, <1>2, TargetKinds

LEMMA PollPadType ==
  ASSUME PadInv, NEW r \in Reports, Poll(r)
  PROVE  PadType'
<1> USE DEF PadInv, PadType
<1>1. config' \in Configs /\ config' = config
  BY DEF Poll
<1>2. r \in AllReports /\ prev_state' = r
  BY GamepadAssumption DEF Poll, AllReports
<1>3. toggled' \subseteq Layers
  BY DEF Poll, L!UpdateTapHold, L!TurnedOn, L!ToggleLayers
<1>4. prev_injected' \in SUBSET Injectable(config)
  <2>1. {t.code : t \in {x \in Taps(r) : x.type = "GamepadButton"}}
          \in SUBSET Injectable(config)
    <3>1. Taps(r) \subseteq Targets(config)
      BY TapsAreTargets, TargetKinds
    <3> QED BY <3>1 DEF Injectable
  <2>2. ButtonTargets(config.button_remaps, BaseInForce', Pressed(r))
          \in SUBSET Injectable(config)
    <3>1. BaseInForce' \subseteq DOMAIN config.button_remaps
      BY <1>1 DEF BaseInForce, BaseRemaps
    <3>2. \A b \in BaseInForce' : config.button_remaps[b] \in Targets(config)
      BY <3>1, TargetKinds
    <3> QED BY <3>2, ButtonTargetsType
  <2>3. ButtonTargets(LayerRemap', LayerRemaps', Pressed(r))
          \in SUBSET Injectable(config)
    <3>1. (config \in Configs /\ toggled \subseteq Layers
             => \A b \in LayerRemaps : LayerRemap[b] \in Targets(config))'
      BY LayerTargets, PTL
    <3>2. \A b \in LayerRemaps' : LayerRemap'[b] \in Targets(config)
      BY <1>1, <1>3, <3>1 DEF Targets, TapTargets
    <3> QED BY <3>2, ButtonTargetsType
  <2> QED BY <2>1, <2>2, <2>3 DEF Poll, EmitPad
<1>5. pad'.trig \in [Triggers -> 0 .. 2]
  <2> DEFINE new == Sent(r, prev_suppressed', prev_injected', prev_suppress')
             sent == IF EffectiveGyro' = "joystick" THEN [new EXCEPT !.rs = r.gyro] ELSE new
  <2>1. new.trig \in [Triggers -> 0 .. 2] /\ sent.trig = new.trig
    BY <1>2 DEF Sent, Blank, AllReports
  <2> QED BY <2>1 DEF Poll, EmitPad, Emit, PadAfter
<1> QED BY <1>1, <1>2, <1>3, <1>4, <1>5

LEMMA PollPadShowsReport ==
  ASSUME PadInv, NEW r \in Reports, Poll(r)
  PROVE  PadShowsReport'
<1> DEFINE old == Sent(prev_state, prev_suppressed, prev_injected, prev_suppress)
           new == Sent(r, prev_suppressed', prev_injected', prev_suppress')
           sent == IF EffectiveGyro' = "joystick" THEN [new EXCEPT !.rs = r.gyro] ELSE new
           AllButtons == Remappable \cup PlainButtons
<1>1. /\ PadType /\ PadType' /\ config' = config /\ prev_state' = r
      /\ prev_injected \in SUBSET Remappable /\ prev_injected' \in SUBSET Remappable
  <2>1. PadType /\ PadType' /\ config' = config /\ prev_state' = r
    BY PollPadType DEF PadInv, Poll
  <2>2. config \in Configs /\ Injectable(config)' = Injectable(config)
    BY <2>1 DEF PadType, Injectable, Targets, TapTargets
  <2> QED BY <2>1, <2>2, InjectableType DEF PadType
<1>2. /\ old.btns \in SUBSET AllButtons
      /\ old.trig \in [Triggers -> 0 .. 2]
  <2>1. prev_state.btns \in SUBSET AllButtons
    BY <1>1 DEF PadType, AllReports
  <2>2. old.btns = (prev_state.btns \ prev_suppressed) \cup prev_injected
    BY <1>1 DEF Sent, Blank, PadType, AllReports
  <2>3. old.trig \in [Triggers -> 0 .. 2]
    BY <1>1 DEF Sent, Blank, PadType, AllReports
  <2> QED BY <1>1, <2>1, <2>2, <2>3 DEF PadType
<1>3. /\ new.btns \in SUBSET AllButtons
      /\ new.trig \in [Triggers -> 0 .. 2]
  <2>1. r \in AllReports /\ r.btns \in SUBSET AllButtons
    BY <1>1 DEF PadType, AllReports
  <2>2. new.btns = (r.btns \ prev_suppressed') \cup prev_injected'
    BY <2>1 DEF Sent, Blank, AllReports
  <2>3. new.trig \in [Triggers -> 0 .. 2]
    BY <2>1 DEF Sent, Blank, AllReports
  <2> QED BY <1>1, <2>1, <2>2, <2>3 DEF PadType
<1>4. /\ sent.btns = new.btns /\ sent.trig = new.trig
      /\ sent.dpad = new.dpad /\ sent.ls = new.ls
  BY <1>1 DEF PadType, AllReports, Sent, Blank
<1>5. Emit(sent, old)
  BY DEF Poll, EmitPad
<1>6. /\ pad.btns = {PadCode(b) : b \in old.btns} /\ pad.trig = old.trig
      /\ pad.dpad = old.dpad /\ pad.ls = old.ls
      /\ GyroStick(config) \/ pad.rs = old.rs
  BY DEF PadInv, PadShowsReport
<1>7. GyroStick(config) \/ sent.rs = new.rs
  <2>1. (config \in Configs /\ toggled \subseteq Layers /\ ~GyroStick(config)
           => EffectiveGyro # "joystick")'
    BY NoGyroStick, PTL
  <2>2. GyroStick(config)' <=> GyroStick(config)
    BY <1>1 DEF GyroStick
  <2> QED BY <1>1, <2>1, <2>2 DEF PadType
<1> HIDE DEF old, new, sent
<1>8. pad'.btns = {PadCode(b) : b \in new.btns}
  <2>1. pad'.btns = ({PadCode(b) : b \in old.btns} \ {PadCode(b) : b \in old.btns \ new.btns})
                      \cup {PadCode(b) : b \in new.btns \ old.btns}
    BY <1>4, <1>5, <1>6 DEF Emit, PadAfter
  <2>2. config \in Configs
    BY <1>1 DEF PadType
  <2> QED BY <1>2, <1>3, <2>1, <2>2, ButtonsDiff
<1>9. pad'.trig = new.trig
  BY <1>2, <1>3, <1>4, <1>5, <1>6 DEF Emit, PadAfter
<1>10. pad'.dpad = new.dpad /\ pad'.ls = new.ls
  BY <1>4, <1>5, <1>6 DEF Emit, PadAfter
<1>11. GyroStick(config)' \/ pad'.rs = new.rs
  BY <1>1, <1>5, <1>6, <1>7 DEF Emit, PadAfter, GyroStick
<1>12. \A b : PadCode(b)' = PadCode(b)
  BY <1>1 DEF PadCode
<1>13. pad'.btns = {PadCode(b)' : b \in new.btns}
  BY <1>8, <1>12
<1> QED BY <1>1, <1>9, <1>10, <1>11, <1>13 DEF PadShowsReport, new

LEMMA NextPadInv == PadInv /\ [Next]_vars => PadInv'
<1> SUFFICES ASSUME PadInv, [Next]_vars PROVE PadInv'
  OBVIOUS
<1>1. ASSUME NEW r \in Reports, Poll(r) PROVE PadInv'
  <2>1. BaseIsSuppressed'
    BY <1>1 DEF Poll, EmitPad, Suppressed, Masks, BaseIsSuppressed
  <2> QED BY <1>1, <2>1, PollPadType, PollPadShowsReport DEF PadInv
<1>2. CASE Tick
  BY <1>2 DEF Tick, L!Tick, padVars, PadInv, PadType, PadShowsReport, PadCode,
     GyroStick, Injectable, Targets, TapTargets, BaseIsSuppressed, Masks, BaseRemaps
<1>3. CASE Reopen
  <2>1. config \in Configs /\ config' = config
    BY <1>3 DEF Reopen, PadInv, PadType
  <2>2. PadInv'
    <3>1. (Init => PadInv)'
      BY InitPadInv, PTL
    <3>2. Init'
      BY <1>3, <2>1 DEF Reopen, NewDevices, Init
    <3> QED BY <3>1, <3>2
  <2> QED BY <2>2
<1>4. CASE UNCHANGED vars
  BY <1>4 DEF vars, layerVars, padVars, PadInv, PadType, PadShowsReport, PadCode,
     GyroStick, Injectable, Targets, TapTargets, BaseIsSuppressed, Masks, BaseRemaps
<1> QED BY <1>1, <1>2, <1>3, <1>4 DEF Next, PollAny

LEMMA PadInductive == Spec => []PadInv
BY InitPadInv, NextPadInv, PTL DEF Spec

(* Whatever is suppressed, injected or blanked from one report to the next,    *)
(* the gamepad shows the last report: sending differences loses nothing.       *)
THEOREM PadTracksReports == Spec => []PadShowsReport
<1>1. PadInv => PadShowsReport
  BY DEF PadInv
<1> QED BY <1>1, PadInductive, PTL

(* The gamepad's share keeps its types, whatever the configuration remaps.     *)
THEOREM PadTypes == Spec => []PadType
<1>1. PadInv => PadType
  BY DEF PadInv
<1> QED BY <1>1, PadInductive, PTL

(* A disabled button stays off the gamepad whichever layer is active.          *)
THEOREM DisabledIsOff == Spec => []DisabledStaysOffPad
<1>1. PadInv => DisabledStaysOffPad
  <2> SUFFICES ASSUME PadInv,
                      NEW b \in Remappable \cap BaseRemaps,
                      \A t \in Targets(config) : t.type = "GamepadButton" => t.code # b
               PROVE  PadCode(b) \notin pad.btns
    BY DEF DisabledStaysOffPad
  <2> DEFINE sent == Sent(prev_state, prev_suppressed, prev_injected, prev_suppress)
  <2>1. sent.btns = (prev_state.btns \ prev_suppressed) \cup prev_injected
    BY DEF Sent, Blank, PadInv, PadType, AllReports
  <2>2. b \notin prev_injected
    BY DEF PadInv, PadType, Injectable
  <2>3. b \notin prev_state.btns \ prev_suppressed
    BY DEF PadInv, BaseIsSuppressed, Masks
  <2>4. sent.btns \subseteq Remappable \cup PlainButtons
    <3>1. prev_injected \subseteq Remappable
      BY InjectableType DEF PadInv, PadType
    <3>2. prev_state.btns \subseteq Remappable \cup PlainButtons
      BY DEF PadInv, PadType, AllReports
    <3> QED BY <2>1, <3>1, <3>2
  <2>5. pad.btns = {PadCode(x) : x \in sent.btns}
    BY DEF PadInv, PadShowsReport
  <2>6. \A x \in sent.btns : PadCode(x) = PadCode(b) => x = b
    BY <2>4, DistinctCodes DEF PadCode, PadInv, PadType
  <2> HIDE DEF sent
  <2> QED BY <2>1, <2>2, <2>3, <2>5, <2>6
<1> QED BY <1>1, PadInductive, PTL

--------------------------------------------------------------------------------
(* The keys of the InputDevice.                                                *)

NoArrowTargets == \A t \in Targets(config) : IsKey(t) => t.code \notin Arrows

(* dpad_up_ and its like are what the arrow keys ought to be, and are where    *)
(* nothing else moves those.                                                   *)
ArrowInv ==
  HasInput => /\ dpad_keys = WantedArrows(prev_state)
              /\ NoArrowTargets => keys \cap Arrows = dpad_keys

KeyInv ==
  /\ PadInv
  /\ dpad_keys \subseteq Arrows
  /\ ArrowInv
  /\ UntouchedKeyFollowsButton

(* The loop over the remaps decides what it sends; the other keys stay.        *)
LEMMA SettleKeeps ==
  ASSUME NEW held, NEW down, NEW up, NEW k, k \notin down, k \notin up,
         NEW x \in Settle(held, down, up)
  PROVE  k \in x <=> k \in held
BY DEF Settle

LEMMA SettleMoves ==
  ASSUME NEW held, NEW down, NEW up, NEW k, NEW x \in Settle(held, down, up)
  PROVE  /\ k \in down /\ k \notin up => k \in x
         /\ k \in up /\ k \notin down => k \notin x
BY DEF Settle

(* What is sent for remaps are codes of key targets.                           *)
LEMMA KeyTargetsType ==
  ASSUME NEW remap, NEW from, NEW s, NEW k \in KeyTargets(remap, from, s)
  PROVE  \E b \in from \cap s : IsKey(remap[b]) /\ remap[b].code = k
BY DEF KeyTargets

LEMMA InitKeyInv == Init => KeyInv
<1> SUFFICES ASSUME Init PROVE KeyInv
  OBVIOUS
<1>1. prev_state.dpad = {} /\ Pressed(prev_state) = {} /\ keys = {} /\ dpad_keys = {}
  BY DEF Init, Centred, Pressed
<1>2. WantedArrows(prev_state) = {}
  BY <1>1 DEF WantedArrows
<1> QED BY <1>1, <1>2, InitPadInv DEF KeyInv, ArrowInv, UntouchedKeyFollowsButton

(* What is fixed by the configuration stays as it is in a report.              *)
LEMMA PollFacts ==
  ASSUME KeyInv, NEW r \in Reports, Poll(r)
  PROVE  /\ config' = config /\ prev_state' = r /\ PadInv'
         /\ config \in Configs /\ r.dpad \subseteq Arrows
         /\ HasInput' = HasInput /\ (HasInput => EmitKeys(r))
         /\ LayerRemaps' = {} \/ \E l \in Layers : LayerRemap' = config.layers[l].remap
<1>1. PadInv' /\ config \in Configs
  BY NextPadInv DEF KeyInv, PadInv, PadType, Next, PollAny
<1>2. config' = config /\ prev_state' = r /\ r.dpad \subseteq Arrows
  BY GamepadAssumption DEF Poll
<1>3. (config \in Configs /\ toggled \subseteq Layers
         => LayerRemaps = {} \/ \E l \in Layers : LayerRemap = config.layers[l].remap)'
  BY LayerRemapIsLayers, PTL
<1>4. HasInput' = HasInput /\ (HasInput => EmitKeys(r))
  BY <1>2 DEF HasInput, NeedsMouse, Poll
<1> QED BY <1>1, <1>2, <1>3, <1>4 DEF PadInv, PadType

LEMMA PollDpadKeys ==
  ASSUME KeyInv, NEW r \in Reports, Poll(r)
  PROVE  dpad_keys' \subseteq Arrows
<1>1. WantedArrows(r)' \subseteq Arrows
  BY PollFacts DEF WantedArrows
<1>2. dpad_keys' = WantedArrows(r)' \/ dpad_keys' = dpad_keys
  BY DEF Poll, EmitKeys
<1> QED BY <1>1, <1>2 DEF KeyInv

LEMMA PollArrows ==
  ASSUME KeyInv, NEW r \in Reports, Poll(r)
  PROVE  ArrowInv'
<1> DEFINE want == WantedArrows(r)'
           tapped == {t.code : t \in {x \in Taps(r) : IsKey(x)}}
           moved == ArrowsAfter(keys \ tapped, want)
           down == Pressed(r) \ Pressed(prev_state)
           up == Pressed(prev_state) \ Pressed(r)
<1> SUFFICES ASSUME HasInput
             PROVE  dpad_keys' = want /\ (NoArrowTargets => keys' \cap Arrows = want)
  <2>1. HasInput' = HasInput /\ prev_state' = r /\ NoArrowTargets' = NoArrowTargets
    BY PollFacts DEF NoArrowTargets, Targets, TapTargets
  <2>2. WantedArrows(prev_state)' = want
    BY <2>1 DEF WantedArrows
  <2> QED BY <2>1, <2>2 DEF ArrowInv
<1> SUFFICES ASSUME NoArrowTargets PROVE keys' \cap Arrows = want
  <2>1. dpad_keys' = want
    BY PollFacts DEF EmitKeys
  <2> QED BY <2>1
<1>1. /\ dpad_keys' = want
      /\ \E base \in Settle(moved, KeyTargets(config.button_remaps, BaseInForce', down),
                                   KeyTargets(config.button_remaps, BaseInForce', up)) :
           keys' \in Settle(base, KeyTargets(LayerRemap', LayerRemaps', down),
                                  KeyTargets(LayerRemap', LayerRemaps', up))
  BY PollFacts DEF EmitKeys
<1>2. want \subseteq Arrows
  BY PollFacts DEF WantedArrows
<1>3. tapped \cap Arrows = {}
  <2>1. Taps(r) \subseteq Targets(config)
    BY TapsAreTargets, TargetKinds
  <2> QED BY <2>1 DEF NoArrowTargets
<1>4. \A s : KeyTargets(config.button_remaps, BaseInForce', s) \cap Arrows = {}
  <2> SUFFICES ASSUME NEW s, NEW k \in KeyTargets(config.button_remaps, BaseInForce', s)
               PROVE  k \notin Arrows
    OBVIOUS
  <2>1. PICK b \in BaseInForce' :
          IsKey(config.button_remaps[b]) /\ config.button_remaps[b].code = k
    BY KeyTargetsType
  <2>2. b \in DOMAIN config.button_remaps
    BY <2>1, PollFacts DEF BaseInForce, BaseRemaps
  <2> QED BY <2>1, <2>2, TargetKinds DEF NoArrowTargets
<1>5. \A s : KeyTargets(LayerRemap', LayerRemaps', s) \cap Arrows = {}
  <2> SUFFICES ASSUME NEW s, NEW k \in KeyTargets(LayerRemap', LayerRemaps', s)
               PROVE  k \notin Arrows
    OBVIOUS
  <2>1. PICK b \in LayerRemaps' : IsKey(LayerRemap'[b]) /\ LayerRemap'[b].code = k
    BY KeyTargetsType
  <2>2. PICK l \in Layers : LayerRemap' = config.layers[l].remap
    BY <2>1, PollFacts
  <2>3. b \in DOMAIN config.layers[l].remap
    BY <2>1, <2>2 DEF LayerRemaps
  <2> QED BY <2>1, <2>2, <2>3, TargetKinds DEF NoArrowTargets
<1>6. keys \cap Arrows = dpad_keys
  BY DEF KeyInv, ArrowInv
<1>7. moved \cap Arrows = want
  BY <1>2, <1>3, <1>6 DEF ArrowsAfter
<1> HIDE DEF want, tapped, moved, down, up
<1>8. \A k \in Arrows : k \in keys' <=> k \in moved
  BY <1>1, <1>4, <1>5, SettleKeeps
<1> QED BY <1>1, <1>7, <1>8

LEMMA PollUntouched ==
  ASSUME KeyInv, NEW r \in Reports, Poll(r)
  PROVE  UntouchedKeyFollowsButton'
<1> SUFFICES ASSUME NEW b \in BaseRemaps,
                    IsKey(config.button_remaps[b]),
                    \A x \in DOMAIN config.button_remaps :
                      x = b \/ config.button_remaps[x].code # config.button_remaps[b].code,
                    b \notin Layers,
                    config.button_remaps[b].code \notin Arrows,
                    \A l \in Layers :
                      /\ config.layers[l].trigger # b
                      /\ b \notin DOMAIN config.layers[l].remap
                      /\ \A x \in DOMAIN config.layers[l].remap :
                           config.layers[l].remap[x].code # config.button_remaps[b].code
                      /\ config.layers[l].tap = NoTarget
                           \/ config.layers[l].tap.code # config.button_remaps[b].code
             PROVE  config.button_remaps[b].code \in keys' <=> b \in Pressed(r)
  <2>1. config' = config /\ prev_state' = r /\ BaseRemaps' = BaseRemaps
    BY PollFacts DEF BaseRemaps
  <2>2. Pressed(prev_state)' = Pressed(r)
    BY <2>1 DEF Pressed
  <2> QED BY <2>1, <2>2 DEF UntouchedKeyFollowsButton
<1> DEFINE key == config.button_remaps[b].code
           tapped == {t.code : t \in {x \in Taps(r) : IsKey(x)}}
           moved == ArrowsAfter(keys \ tapped, WantedArrows(r)')
           down == Pressed(r) \ Pressed(prev_state)
           up == Pressed(prev_state) \ Pressed(r)
<1>1. key \in keys <=> b \in Pressed(prev_state)
  BY DEF KeyInv, UntouchedKeyFollowsButton
<1>2. HasInput
  BY DEF BaseRemaps, HasInput, NeedsMouse
<1>3. PICK base \in Settle(moved, KeyTargets(config.button_remaps, BaseInForce', down),
                                  KeyTargets(config.button_remaps, BaseInForce', up)) :
           keys' \in Settle(base, KeyTargets(LayerRemap', LayerRemaps', down),
                                  KeyTargets(LayerRemap', LayerRemaps', up))
  BY <1>2, PollFacts DEF EmitKeys
<1>4. key \notin tapped
  BY TapsAreTargets
<1>5. key \in moved <=> key \in keys
  <2>1. WantedArrows(r)' \subseteq Arrows
    BY PollFacts DEF WantedArrows
  <2>2. key \notin WantedArrows(r)' /\ key \notin dpad_keys
    BY <2>1 DEF KeyInv
  <2> QED BY <1>4, <2>2 DEF ArrowsAfter
<1>6. b \in BaseInForce'
  BY PollFacts DEF BaseInForce, BaseRemaps, IsKey, LayerRemaps
<1>7. \A s : key \in KeyTargets(config.button_remaps, BaseInForce', s) <=> b \in s
  <2>1. BaseInForce' \subseteq DOMAIN config.button_remaps
    BY PollFacts DEF BaseInForce, BaseRemaps
  <2> QED BY <1>6, <2>1 DEF KeyTargets
<1>8. \A s : key \notin KeyTargets(LayerRemap', LayerRemaps', s)
  BY PollFacts DEF KeyTargets, LayerRemaps
<1> HIDE DEF key, tapped, moved, down, up
<1>9. key \in keys' <=> key \in base
  BY <1>3, <1>8, SettleKeeps
<1>10. ASSUME b \in down PROVE key \in base
  <2>1. b \notin up
    BY <1>10 DEF down, up
  <2> QED BY <1>3, <1>7, <1>10, <2>1, SettleMoves
<1>11. ASSUME b \in up PROVE key \notin base
  <2>1. b \notin down
    BY <1>11 DEF down, up
  <2> QED BY <1>3, <1>7, <1>11, <2>1, SettleMoves
<1>12. ASSUME b \notin down, b \notin up PROVE key \in base <=> key \in moved
  BY <1>3, <1>7, <1>12, SettleKeeps
<1>13. key \in keys' <=> b \in Pressed(r)
  BY <1>1, <1>5, <1>9, <1>10, <1>11, <1>12 DEF down, up
<1> QED BY <1>13 DEF key

LEMMA NextKeyInv == KeyInv /\ [Next]_vars => KeyInv'
<1> SUFFICES ASSUME KeyInv, [Next]_vars PROVE KeyInv'
  OBVIOUS
<1>1. ASSUME NEW r \in Reports, Poll(r) PROVE KeyInv'
  BY <1>1, PollFacts, PollDpadKeys, PollArrows, PollUntouched DEF KeyInv
<1>2. ASSUME UNCHANGED <<config, tap_hold, toggled, padVars, dpad_keys, keys>>
      PROVE  KeyInv'
  <2>1. PadInv'
    BY NextPadInv DEF KeyInv
  <2>2. ActiveLayer' = ActiveLayer
    BY <1>2 DEF ActiveLayer, L!ActiveLayer, L!Live, L!FirstOf
  <2>3. WantedArrows(prev_state)' = WantedArrows(prev_state)
    BY <1>2, <2>2 DEF WantedArrows, EffectiveDpad, InLayer, Active, padVars
  <2>4. HasInput' = HasInput /\ NoArrowTargets' = NoArrowTargets
    BY <1>2 DEF HasInput, NeedsMouse, NoArrowTargets, Targets, TapTargets
  <2>5. Pressed(prev_state)' = Pressed(prev_state) /\ BaseRemaps' = BaseRemaps
    BY <1>2 DEF Pressed, padVars, BaseRemaps
  <2>6. UntouchedKeyFollowsButton'
    BY <1>2, <2>5 DEF KeyInv, UntouchedKeyFollowsButton
  <2> QED BY <1>2, <2>1, <2>3, <2>4, <2>6 DEF KeyInv, ArrowInv
<1>3. CASE Tick
  BY <1>2, <1>3 DEF Tick, L!Tick
<1>4. CASE Reopen
  <2>1. (Init => KeyInv)'
    BY InitKeyInv, PTL
  <2>2. Init'
    BY <1>4 DEF Reopen, NewDevices, Init, KeyInv, PadInv, PadType
  <2> QED BY <2>1, <2>2
<1>5. CASE UNCHANGED vars
  BY <1>2, <1>5 DEF vars, layerVars
<1> QED BY <1>1, <1>3, <1>4, <1>5 DEF Next, PollAny

LEMMA KeyInductive == Spec => []KeyInv
BY InitKeyInv, NextKeyInv, PTL DEF Spec

(* No arrow key is left down, or up, by a change of layer.                     *)
THEOREM ArrowsFollowDpad == Spec => []ArrowKeysFollowDpad
<1>1. KeyInv => ArrowKeysFollowDpad
  BY DEF KeyInv, ArrowInv, ArrowKeysFollowDpad, NoArrowTargets
<1> QED BY <1>1, KeyInductive, PTL

(* A key with a single source follows its button through every change of       *)
(* layer.                                                                      *)
THEOREM UntouchedKeys == Spec => []UntouchedKeyFollowsButton
<1>1. KeyInv => UntouchedKeyFollowsButton
  BY DEF KeyInv
<1> QED BY <1>1, KeyInductive, PTL

--------------------------------------------------------------------------------
(* A layer that stays keeps the keyboard right.                                *)

(* The loop over the remaps takes a key with one button behind it from where   *)
(* that button was, s, to where it is now, t.                                  *)
LEMMA KeyFollows ==
  ASSUME NEW remap, NEW from, NEW b \in from, IsKey(remap[b]),
         \A a \in from : IsKey(remap[a]) /\ remap[a].code = remap[b].code => a = b,
         NEW s, NEW t, NEW held, remap[b].code \in held <=> b \in s,
         NEW x \in Settle(held, KeyTargets(remap, from, t \ s),
                                KeyTargets(remap, from, s \ t))
  PROVE  remap[b].code \in x <=> b \in t
<1>1. \A u : remap[b].code \in KeyTargets(remap, from, u) <=> b \in u
  BY DEF KeyTargets
<1>2. CASE b \in t /\ b \notin s
  BY <1>1, <1>2, SettleMoves
<1>3. CASE b \in s /\ b \notin t
  BY <1>1, <1>3, SettleMoves
<1>4. CASE b \in s <=> b \in t
  BY <1>1, <1>4, SettleKeeps
<1> QED BY <1>2, <1>3, <1>4

(* What no two remaps in force share, said of the sets the poll uses.          *)
LEMMA Uncontested ==
  ASSUME config \in Configs, KeysUncontested(config),
         LayerRemaps = {} \/ \E l \in Layers : LayerRemap = config.layers[l].remap
  PROVE  LET base(b) == config.button_remaps[b]
             over(b) == LayerRemap[b]
         IN  /\ \A a, b \in BaseInForce :
                  IsKey(base(a)) /\ IsKey(base(b)) /\ base(a).code = base(b).code => a = b
             /\ \A a, b \in LayerRemaps :
                  IsKey(over(a)) /\ IsKey(over(b)) /\ over(a).code = over(b).code => a = b
             /\ \A b \in BaseInForce : IsKey(base(b)) => base(b).code \notin Arrows
             /\ \A b \in LayerRemaps : IsKey(over(b)) => over(b).code \notin Arrows
             /\ \A a \in BaseInForce, b \in LayerRemaps :
                  IsKey(base(a)) /\ IsKey(over(b)) => base(a).code # over(b).code
             /\ \A l \in Layers :
                  LET tap == config.layers[l].tap IN
                  tap # NoTarget =>
                    /\ tap.code \notin Arrows
                    /\ \A b \in BaseInForce : IsKey(base(b)) => tap.code # base(b).code
                    /\ \A b \in LayerRemaps : IsKey(over(b)) => tap.code # over(b).code
<1>1. BaseInForce \subseteq DOMAIN config.button_remaps
  BY DEF BaseInForce, BaseRemaps
<1>2. CASE LayerRemaps = {}
  BY <1>1, <1>2 DEF KeysUncontested
<1>3. ASSUME NEW l \in Layers, LayerRemap = config.layers[l].remap
      PROVE  LayerRemaps = DOMAIN config.layers[l].remap
  BY <1>3 DEF LayerRemaps
<1> QED BY <1>1, <1>2, <1>3 DEF KeysUncontested

LEMMA PollKeepsKeys ==
  ASSUME KeyInv, NEW r \in Reports, Poll(r),
         KeysUncontested(config), keys = WantedKeys,
         ActiveLayer' = ActiveLayer, BaseInForce' = BaseInForce
  PROVE  keys' = WantedKeys'
<1> DEFINE old == Pressed(prev_state)
           new == Pressed(r)
           tapped == {t.code : t \in {x \in Taps(r) : IsKey(x)}}
           moved == ArrowsAfter(keys \ tapped, WantedArrows(r)')
           remaps == config.button_remaps
           below(s) == KeyTargets(remaps, BaseInForce, s)
           above(s) == KeyTargets(LayerRemap, LayerRemaps, s)
<1>1. /\ config' = config /\ prev_state' = r /\ HasInput' = HasInput
      /\ LayerRemap' = LayerRemap /\ LayerRemaps' = LayerRemaps
      /\ WantedArrows(r)' = WantedArrows(r)
      /\ Pressed(prev_state)' = new
  <2>1. config' = config /\ prev_state' = r /\ HasInput' = HasInput
    BY PollFacts
  <2>2. LayerRemap' = LayerRemap /\ EffectiveDpad' = EffectiveDpad
    BY <2>1 DEF LayerRemap, EffectiveDpad, InLayer, Active
  <2> QED BY <2>1, <2>2 DEF LayerRemaps, WantedArrows, Pressed
<1>2. CASE ~HasInput
  BY <1>1, <1>2 DEF Poll, WantedKeys
<1>3. CASE HasInput
  <2>1. keys = below(old) \cup above(old) \cup WantedArrows(prev_state)
    BY <1>3 DEF WantedKeys
  <2>2. WantedKeys' = below(new) \cup above(new) \cup WantedArrows(r)
    BY <1>1, <1>3 DEF WantedKeys, WantedArrows
  <2>3. PICK base \in Settle(moved, below(new \ old), below(old \ new)) :
          keys' \in Settle(base, above(new \ old), above(old \ new))
    BY <1>1, <1>3, PollFacts DEF EmitKeys
  <2>4. LayerRemaps = {} \/ \E l \in Layers : LayerRemap = config.layers[l].remap
    BY <1>1, PollFacts
  <2>5. /\ \A a, b \in BaseInForce :
             IsKey(remaps[a]) /\ IsKey(remaps[b]) /\ remaps[a].code = remaps[b].code => a = b
        /\ \A a, b \in LayerRemaps :
             IsKey(LayerRemap[a]) /\ IsKey(LayerRemap[b])
               /\ LayerRemap[a].code = LayerRemap[b].code => a = b
        /\ \A a \in BaseInForce, b \in LayerRemaps :
             IsKey(remaps[a]) /\ IsKey(LayerRemap[b]) => remaps[a].code # LayerRemap[b].code
    BY <2>4, PollFacts, Uncontested
  <2>6. /\ \A b \in BaseInForce : IsKey(remaps[b]) => remaps[b].code \notin Arrows
        /\ \A b \in LayerRemaps : IsKey(LayerRemap[b]) => LayerRemap[b].code \notin Arrows
    BY <2>4, PollFacts, Uncontested
  <2>7. \A k \in tapped :
          /\ k \notin Arrows
          /\ \A b \in BaseInForce : IsKey(remaps[b]) => k # remaps[b].code
          /\ \A b \in LayerRemaps : IsKey(LayerRemap[b]) => k # LayerRemap[b].code
    BY <2>4, PollFacts, Uncontested, TapsAreTargets
  <2>8. WantedArrows(prev_state) = dpad_keys /\ dpad_keys \subseteq Arrows
    BY <1>3 DEF KeyInv, ArrowInv
  <2>9. WantedArrows(r) \subseteq Arrows
    BY PollFacts DEF WantedArrows
  <2>10. moved = ((keys \ tapped) \ (dpad_keys \ WantedArrows(r)))
                   \cup (WantedArrows(r) \ dpad_keys)
    BY <1>1 DEF ArrowsAfter
  <2> HIDE DEF old, new, tapped, moved, remaps
  <2>11. ASSUME NEW b \in BaseInForce, IsKey(remaps[b])
         PROVE  remaps[b].code \in keys' <=> remaps[b].code \in WantedKeys'
    <3> DEFINE k == remaps[b].code
    <3>1. \A a \in LayerRemaps : IsKey(LayerRemap[a]) => LayerRemap[a].code # k
      BY <2>5, <2>11
    <3>2. \A u : k \notin above(u)
      BY <3>1, KeyTargetsType
    <3>3. \A u : k \in below(u) <=> b \in u
      BY <2>5, <2>11 DEF KeyTargets
    <3>4. k \notin Arrows /\ k \notin tapped
      BY <2>6, <2>7, <2>11
    <3>5. k \in moved <=> b \in old
      BY <2>1, <2>8, <2>9, <2>10, <3>2, <3>3, <3>4
    <3>6. k \in base <=> b \in new
      BY <2>3, <2>5, <2>11, <3>5, KeyFollows
    <3>7. k \in keys' <=> k \in base
      BY <2>3, <3>2, SettleKeeps
    <3> QED BY <2>2, <2>9, <3>2, <3>3, <3>4, <3>6, <3>7
  <2>12. ASSUME NEW b \in LayerRemaps, IsKey(LayerRemap[b])
         PROVE  LayerRemap[b].code \in keys' <=> LayerRemap[b].code \in WantedKeys'
    <3> DEFINE k == LayerRemap[b].code
    <3>1. \A a \in BaseInForce : IsKey(remaps[a]) => remaps[a].code # k
      BY <2>5, <2>12
    <3>2. \A u : k \notin below(u)
      BY <3>1, KeyTargetsType
    <3>3. \A u : k \in above(u) <=> b \in u
      BY <2>5, <2>12 DEF KeyTargets
    <3>4. k \notin Arrows /\ k \notin tapped
      BY <2>6, <2>7, <2>12
    <3>5. k \in moved <=> b \in old
      BY <2>1, <2>8, <2>9, <2>10, <3>2, <3>3, <3>4
    <3>6. k \in base <=> k \in moved
      BY <2>3, <3>2, SettleKeeps
    <3>7. k \in keys' <=> b \in new
      BY <2>3, <2>5, <2>12, <3>5, <3>6, KeyFollows
    <3> QED BY <2>2, <2>9, <3>2, <3>3, <3>4, <3>7
  <2>13. ASSUME NEW k,
                \A a \in BaseInForce : IsKey(remaps[a]) => remaps[a].code # k,
                \A a \in LayerRemaps : IsKey(LayerRemap[a]) => LayerRemap[a].code # k
         PROVE  k \in keys' <=> k \in WantedKeys'
    <3>1. \A u : k \notin below(u) /\ k \notin above(u)
      BY <2>13, KeyTargetsType
    <3>2. k \in keys' <=> k \in moved
      BY <2>3, <3>1, SettleKeeps
    <3>3. k \in keys <=> k \in dpad_keys
      BY <2>1, <2>8, <3>1
    <3>4. k \in moved <=> k \in WantedArrows(r)
      BY <2>7, <2>8, <2>10, <3>3
    <3> QED BY <2>2, <3>1, <3>2, <3>4
  <2>14. \A k : k \in keys' <=> k \in WantedKeys'
    BY <2>11, <2>12, <2>13
  <2> QED BY <2>2, <2>3, <2>14 DEF Settle
<1> QED BY <1>2, <1>3

(* While the same remaps stay in force and no two of them share a key, a       *)
(* keyboard that is right stays right, whatever the report.                    *)
THEOREM KeysKeptInLayer == Spec => KeysStayRightInLayer
<1>1. KeyInv /\ [Next]_vars =>
        [PollAny /\ KeysUncontested(config) /\ keys = WantedKeys
           /\ ActiveLayer' = ActiveLayer /\ BaseInForce' = BaseInForce
           => keys' = WantedKeys']_vars
  BY PollKeepsKeys DEF PollAny
<1> QED BY <1>1, KeyInductive, PTL DEF Spec, KeysStayRightInLayer
================================================================================
