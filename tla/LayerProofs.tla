----------------------------- MODULE LayerProofs ------------------------------
(* What TLAPS proves of LayerEngine and LayerLoop, for every set of layers,    *)
(* every configuration and every order of the hash map.                        *)
EXTENDS LayerLoop, WellFoundedInduction, TLAPS

(* Entries of tap_hold_states_ belong to hold layers, toggled_layers_ to       *)
(* toggle layers.                                                              *)
KindsApart ==
  /\ toggled \subseteq ToggleLayers
  /\ \A l \in Layers : tap_hold[l] # "none" => l \in HoldLayers

(* The inductive invariant: exclusion of toggle and hold layers needs to know  *)
(* that the two kinds never mix.                                               *)
IInv == TypeOK /\ KindsApart /\ ToggleExcludesHold

(* A set of layers that is not empty has a first one in the order of the walk. *)
LEMMA FirstExists ==
  ASSUME NEW rank \in [Layers -> Nat], NEW S \in SUBSET Layers, S # {}
  PROVE  \E l \in S : \A m \in S : rank[l] <= rank[m]
<1> DEFINE R == OpToRel(<, Nat)
           T == {rank[l] : l \in S}
<1>1. IsWellFoundedOn(R, Nat)
  BY NatLessThanWellFounded
<1>2. T \subseteq Nat /\ T # {}
  OBVIOUS
<1>3. PICK x \in T : \A y \in T : ~ (<<y, x>> \in R)
  <2> HIDE DEF R, T
  <2> QED BY <1>1, <1>2, WFMin
<1>4. ASSUME NEW y \in T PROVE x <= y
  <2>1. <<y, x>> \in R <=> y < x
    BY <1>2 DEF OpToRel
  <2>2. x \in Nat /\ y \in Nat /\ ~ (<<y, x>> \in R)
    BY <1>2, <1>3
  <2> HIDE DEF R, T
  <2> QED BY <2>1, <2>2
<1>5. PICK l \in S : x = rank[l]
  BY <1>3
<1> QED BY <1>4, <1>5

(* get_active_layer returns null exactly when no layer is live, and a live     *)
(* layer otherwise.                                                            *)
LEMMA ActiveLayerIsLive ==
  ASSUME IInv
  PROVE  /\ Live \subseteq Layers
         /\ ActiveLayer = NoLayer <=> Live = {}
         /\ ActiveLayer # NoLayer => ActiveLayer \in Live
<1>1. Live \in SUBSET Layers
  BY DEF IInv, TypeOK, Live
<1>2. config.rank \in [Layers -> Nat] /\ NoLayer \notin Layers
  BY ConfigAssumption DEF IInv, TypeOK
<1>3. CASE Live = {}
  BY <1>1, <1>3 DEF ActiveLayer
<1>4. CASE Live # {}
  <2>1. \E l \in Live : \A m \in Live : config.rank[l] <= config.rank[m]
    BY <1>1, <1>2, <1>4, FirstExists
  <2>2. FirstOf(Live) \in Live
    BY <2>1 DEF FirstOf
  <2> QED BY <1>1, <1>2, <1>4, <2>2 DEF ActiveLayer
<1> QED BY <1>3, <1>4

--------------------------------------------------------------------------------
LEMMA InitIInv == Init => IInv
BY ConfigAssumption
DEF Init, IInv, TypeOK, KindsApart, ToggleExcludesHold, HoldLayers, ToggleLayers

(* The configuration never changes, so neither do the two kinds of layers.     *)
LEMMA PollTypeOK ==
  ASSUME IInv, NEW s \in SUBSET Buttons, Poll(s)
  PROVE  TypeOK'
<1> USE DEF IInv, TypeOK, Poll, UpdateTapHold
<1>1. config' \in Configs /\ prev' \in SUBSET Buttons
  OBVIOUS
<1>2. tap_hold' \in [Layers -> {"none", "pending", "activated"}]
  BY DEF NextEntry, VisitedEntry
<1>3. elapsed' \in [Layers -> 0 .. MaxElapsed]
  BY ConfigAssumption
<1>4. toggled' \in SUBSET Layers
  BY DEF TurnedOff, TurnedOn, ToggleLayers
<1> QED BY <1>1, <1>2, <1>3, <1>4

LEMMA PollKindsApart ==
  ASSUME IInv, NEW s \in SUBSET Buttons, Poll(s)
  PROVE  KindsApart'
<1> USE DEF IInv, KindsApart, Poll
<1>1. HoldLayers' = HoldLayers /\ ToggleLayers' = ToggleLayers
  BY DEF HoldLayers, ToggleLayers
<1>2. toggled' \subseteq ToggleLayers'
  BY <1>1 DEF UpdateTapHold, TurnedOn
<1>3. ASSUME NEW l \in Layers, tap_hold'[l] # "none" PROVE l \in HoldLayers'
  <2>1. tap_hold'[l] = NextEntry(config.rank, l, ActiveLayer, s)
    BY DEF UpdateTapHold
  <2> QED BY <1>1, <1>3, <2>1 DEF NextEntry
<1> QED BY <1>2, <1>3

(* A pass that turns a layer on leaves no hold layer activated: an entry of an *)
(* earlier layer is cleared after its turn, one of a later layer before it.    *)
LEMMA PollToggleExcludesHold ==
  ASSUME IInv, NEW s \in SUBSET Buttons, Poll(s)
  PROVE  ToggleExcludesHold'
<1> DEFINE on == TurnedOn(ActiveLayer, s)
<1>1. \A l \in Layers : tap_hold'[l] = NextEntry(config.rank, l, ActiveLayer, s)
  BY DEF Poll, UpdateTapHold
<1>2. toggled' = (toggled \ TurnedOff(ActiveLayer, s)) \cup on
  BY DEF Poll, UpdateTapHold
<1>3. SUFFICES ASSUME toggled' # {}, NEW l \in Layers
               PROVE  tap_hold'[l] # "activated"
  BY DEF ToggleExcludesHold
<1>4. CASE ActiveLayer = NoLayer
  <2>1. toggled = {} /\ tap_hold[l] # "activated"
    BY <1>4, ActiveLayerIsLive DEF Live
  <2>2. PICK t \in on : TRUE
    BY <1>2, <1>3, <2>1
  <2>3. t \in Layers /\ t \in ToggleLayers
    BY <2>2 DEF TurnedOn, ToggleLayers
  <2>4. CASE l \notin HoldLayers \/ ClearedAfter(config.rank, l, on)
    BY <1>1, <2>1, <2>4 DEF NextEntry
  <2>5. CASE l \in HoldLayers /\ ~ClearedAfter(config.rank, l, on)
    <3>1. l # t
      BY <2>3, <2>5 DEF HoldLayers, ToggleLayers
    <3>2. config.rank \in [Layers -> Nat] /\ config.rank[l] # config.rank[t]
      BY <2>3, <3>1, ConfigAssumption DEF IInv, TypeOK
    <3>3. ~ (config.rank[l] < config.rank[t])
      BY <2>2, <2>5 DEF ClearedAfter
    <3>4. ClearedBefore(config.rank, l, on)
      BY <2>2, <2>3, <3>2, <3>3 DEF ClearedBefore
    <3>5. VisitedEntry(config.rank, l, ActiveLayer, s) # "activated"
      BY <3>4 DEF VisitedEntry
    <3> QED BY <1>1, <2>1, <2>5, <3>5 DEF NextEntry
  <2> QED BY <2>4, <2>5
<1>5. CASE ActiveLayer # NoLayer
  <2>1. toggled # {} /\ tap_hold[l] # "activated"
    BY <1>2, <1>3, <1>5 DEF TurnedOn, IInv, ToggleExcludesHold
  <2>2. ActiveLayer \in ToggleLayers
    BY <1>5, <2>1, ActiveLayerIsLive
    DEF Live, IInv, ToggleExcludesHold, KindsApart
  <2>3. l \in HoldLayers => Skipped(l, ActiveLayer)
    BY <1>5, <2>2 DEF Skipped, HoldLayers, ToggleLayers
  <2> QED BY <1>1, <2>1, <2>3 DEF NextEntry
<1> QED BY <1>4, <1>5

LEMMA NextIInv == IInv /\ [Next]_vars => IInv'
<1> SUFFICES ASSUME IInv, [Next]_vars PROVE IInv'
  OBVIOUS
<1>1. ASSUME NEW s \in SUBSET Buttons, Poll(s) PROVE IInv'
  BY <1>1, PollTypeOK, PollKindsApart, PollToggleExcludesHold DEF IInv
<1>2. CASE Tick
  <2>1. TypeOK'
    BY <1>2, ConfigAssumption DEF Tick, IInv, TypeOK
  <2> QED BY <1>2, <2>1 DEF Tick, IInv, KindsApart, ToggleExcludesHold, HoldLayers, ToggleLayers
<1>3. CASE Reopen
  BY <1>3, ConfigAssumption
  DEF Reopen, IInv, TypeOK, KindsApart, ToggleExcludesHold, HoldLayers, ToggleLayers
<1>4. CASE UNCHANGED vars
  BY <1>4 DEF vars, IInv, TypeOK, KindsApart, ToggleExcludesHold, HoldLayers, ToggleLayers
<1> QED BY <1>1, <1>2, <1>3, <1>4 DEF Next, PollAny

LEMMA InvariantHolds == Spec => []IInv
BY InitIInv, NextIInv, PTL DEF Spec

(* Every variable keeps its type: entries, ages and toggles stay in range for  *)
(* every report, clock step and reconnection.                                  *)
THEOREM TypeCorrect == Spec => []TypeOK
<1>1. IInv => TypeOK
  BY DEF IInv
<1> QED BY <1>1, InvariantHolds, PTL

(* While a layer is toggled on no hold layer is activated (the clear() of      *)
(* update_tap_hold is enough, in whatever order the map is walked).            *)
THEOREM ToggleExclusion == Spec => []ToggleExcludesHold
<1>1. IInv => ToggleExcludesHold
  BY DEF IInv
<1> QED BY <1>1, InvariantHolds, PTL

--------------------------------------------------------------------------------
(* A layer the pass skips keeps its entry and its toggle.                      *)
LEMMA SkippedUnchanged ==
  ASSUME IInv, NEW s \in SUBSET Buttons, Poll(s),
         NEW l \in Layers, Skipped(l, ActiveLayer)
  PROVE  /\ tap_hold'[l] = tap_hold[l]
         /\ l \in toggled' <=> l \in toggled
BY DEF Poll, UpdateTapHold, NextEntry, Skipped, TurnedOn, TurnedOff

(* In a report that does not release its trigger the active layer stays live.  *)
LEMMA ActiveStaysLive ==
  ASSUME IInv, NEW s \in SUBSET Buttons, Poll(s), ActiveLayer # NoLayer,
         ~Released(ActiveLayer, s)
  PROVE  ActiveLayer \in Live'
<1> DEFINE a == ActiveLayer
<1>1. a \in Layers /\ a \in Live
  BY ActiveLayerIsLive
<1>2. CASE a \in toggled
  BY <1>1, <1>2 DEF Poll, UpdateTapHold, TurnedOff, Live
<1>3. CASE a \notin toggled
  <2>1. tap_hold[a] = "activated" /\ a \in HoldLayers
    BY <1>1, <1>3 DEF Live, IInv, KindsApart
  <2>2. tap_hold'[a] = NextEntry(config.rank, a, a, s)
    BY <1>1 DEF Poll, UpdateTapHold
  <2>3. TurnedOn(a, s) = {} /\ ~Skipped(a, a)
    BY DEF TurnedOn, Skipped
  <2>4. NextEntry(config.rank, a, a, s) = VisitedEntry(config.rank, a, a, s)
    BY <2>1, <2>3 DEF NextEntry, ClearedAfter
  <2>5. VisitedEntry(config.rank, a, a, s) = "activated"
    BY <2>1, <2>3 DEF VisitedEntry, ClearedBefore
  <2>6. tap_hold'[a] = "activated"
    BY <2>2, <2>4, <2>5
  <2> QED BY <1>1, <2>6 DEF Live
<1> QED BY <1>2, <1>3

(* No other layer can take over: the set of live layers can only lose the      *)
(* active one, and only by a release of its trigger.                           *)
LEMMA PollGivesWay ==
  ASSUME IInv, NEW s \in SUBSET Buttons, Poll(s), ActiveLayer # NoLayer,
         ~Released(ActiveLayer, s)
  PROVE  ActiveLayer' = ActiveLayer
<1>1. ActiveLayer \in Live /\ ActiveLayer \in Live' /\ Live \subseteq Layers
  BY ActiveLayerIsLive, ActiveStaysLive
<1>2. IInv'
  BY NextIInv DEF Next, PollAny
<1>3. Live' \subseteq Layers
  BY <1>2 DEF IInv, TypeOK, Live
<1>4. \A l \in Layers \ {ActiveLayer} : l \in Live' <=> l \in Live
  <2> TAKE l \in Layers \ {ActiveLayer}
  <2>1. Skipped(l, ActiveLayer)
    BY DEF Skipped
  <2> QED BY <2>1, SkippedUnchanged DEF Live
<1>5. Live' = Live
  BY <1>1, <1>3, <1>4
<1>6. config' = config
  BY DEF Poll
<1> QED BY <1>5, <1>6 DEF ActiveLayer, FirstOf

(* The layer in force is never pre-empted: in any reachable state, a report    *)
(* that changes the active layer released the trigger of the old one.          *)
THEOREM NoPreemption == Spec => GivesWayOnlyOnRelease
<1>1. IInv /\ [Next]_vars =>
        [PollAny => \/ ActiveLayer = NoLayer
                    \/ ActiveLayer' = ActiveLayer
                    \/ /\ Trigger(ActiveLayer) \in prev
                       /\ Trigger(ActiveLayer) \notin prev']_vars
  <2> SUFFICES ASSUME IInv, NEW s \in SUBSET Buttons, Poll(s),
                      ActiveLayer # NoLayer, ActiveLayer' # ActiveLayer
               PROVE  /\ Trigger(ActiveLayer) \in prev
                      /\ Trigger(ActiveLayer) \notin prev'
    BY DEF PollAny
  <2>1. Released(ActiveLayer, s)
    BY PollGivesWay
  <2> QED BY <2>1 DEF Released, Poll
<1> QED BY <1>1, InvariantHolds, PTL DEF Spec, GivesWayOnlyOnRelease

(* An entry outlives the press it records only when the release came in a      *)
(* report whose pass skipped its layer.                                        *)
LEMMA PollStale ==
  ASSUME IInv, NEW s \in SUBSET Buttons, Poll(s),
         NEW l \in Layers, ~Stale(l), Stale(l)'
  PROVE  Skipped(l, ActiveLayer)
<1> SUFFICES ASSUME ~Skipped(l, ActiveLayer) PROVE FALSE
  OBVIOUS
<1>1. Trigger(l) \notin s /\ tap_hold'[l] # "none"
  BY DEF Stale, Poll, Trigger
<1>2. tap_hold'[l] = NextEntry(config.rank, l, ActiveLayer, s)
  BY DEF Poll, UpdateTapHold
<1>3. CASE l \notin HoldLayers
  BY <1>1, <1>2, <1>3 DEF NextEntry, IInv, KindsApart
<1>4. CASE l \in HoldLayers
  <2>1. tap_hold'[l] = VisitedEntry(config.rank, l, ActiveLayer, s)
    BY <1>1, <1>2, <1>4 DEF NextEntry
  <2>2. ~Pressed(l, s)
    BY <1>1 DEF Pressed
  <2>3. tap_hold[l] # "none" /\ ~Released(l, s)
    BY <1>1, <2>1, <2>2 DEF VisitedEntry
  <2>4. Trigger(l) \in prev
    BY <2>3 DEF Stale
  <2> QED BY <1>1, <2>3, <2>4 DEF Released
<1> QED BY <1>3, <1>4

(* A ghost press has a single cause, for every configuration: its release was  *)
(* skipped because another layer was active.                                   *)
THEOREM GhostOnlyWhenSkipped == Spec => StaleOnlyWhenSkipped
<1>1. IInv /\ [Next]_vars =>
        [\A l \in Layers : ~Stale(l) /\ Stale(l)' => Skipped(l, ActiveLayer)]_vars
  <2> SUFFICES ASSUME IInv, Next, NEW l \in Layers, ~Stale(l), Stale(l)'
               PROVE  Skipped(l, ActiveLayer)
    OBVIOUS
  <2>1. CASE PollAny
    BY <2>1, PollStale DEF PollAny
  <2>2. CASE Tick
    BY <2>2 DEF Tick, Stale, Trigger
  <2>3. CASE Reopen
    BY <2>3 DEF Reopen, Stale, Trigger
  <2> QED BY <2>1, <2>2, <2>3 DEF Next
<1> QED BY <1>1, InvariantHolds, PTL DEF Spec, StaleOnlyWhenSkipped

--------------------------------------------------------------------------------
(* Where one button moves and no two layers share a trigger, one layer turns   *)
(* on at most, and no other layer meets an edge of its own trigger.            *)
LEMMA LoneRelease ==
  ASSUME NEW s, \A l, m \in Layers : Trigger(l) = Trigger(m) => l = m,
         \A x, y \in (s \ prev) \cup (prev \ s) : x = y,
         NEW a, NEW t \in TurnedOn(a, s), NEW l \in Layers, l # t
  PROVE  ~Pressed(l, s) /\ ~Released(l, s)
BY DEF TurnedOn, ToggleLayers, Pressed, Released

(* Whether the layer that turns on comes before or after a hold layer, the     *)
(* entry of that one is gone when the pass is over.                            *)
LEMMA EntryAnyOrder ==
  ASSUME \A l, m \in Layers : Trigger(l) = Trigger(m) => l = m,
         NEW s, \A x, y \in (s \ prev) \cup (prev \ s) : x = y,
         NEW a, NEW l \in HoldLayers, ~Skipped(l, a),
         NEW c \in Configs
  PROVE  NextEntry(c.rank, l, a, s) =
           IF TurnedOn(a, s) # {} THEN "none" ELSE VisitedEntry(c.rank, l, a, s)
<1>1. CASE TurnedOn(a, s) = {}
  BY <1>1 DEF NextEntry, ClearedAfter
<1>2. ASSUME NEW t \in TurnedOn(a, s) PROVE NextEntry(c.rank, l, a, s) = "none"
  <2>1. t \in Layers /\ l \in Layers /\ l # t
    BY <1>2 DEF TurnedOn, ToggleLayers, HoldLayers
  <2>2. ~Pressed(l, s) /\ ~Released(l, s)
    BY <1>2, <2>1, LoneRelease
  <2>3. c.rank[l] < c.rank[t] \/ c.rank[t] < c.rank[l]
    <3>1. c.rank \in [Layers -> Nat] /\ (c.rank[l] = c.rank[t] => l = t)
      BY <2>1, ConfigAssumption
    <3>2. c.rank[l] \in Nat /\ c.rank[t] \in Nat
      BY <2>1, <3>1
    <3> QED BY <2>1, <3>1, <3>2
  <2>4. ClearedAfter(c.rank, l, TurnedOn(a, s))
          \/ ClearedBefore(c.rank, l, TurnedOn(a, s))
    BY <1>2, <2>3 DEF ClearedAfter, ClearedBefore
  <2> QED BY <2>2, <2>4 DEF NextEntry, VisitedEntry
<1> QED BY <1>1, <1>2

(* Taps do not depend on the order either: a layer released next to one that   *)
(* turns on would have to share its trigger.                                   *)
LEMMA TapsAnyOrder ==
  ASSUME \A l, m \in Layers : Trigger(l) = Trigger(m) => l = m,
         NEW s, \A x, y \in (s \ prev) \cup (prev \ s) : x = y,
         NEW a, NEW rank
  PROVE  Tapped(rank, a, s) =
           {l \in HoldLayers : ~Skipped(l, a) /\ Released(l, s) /\ tap_hold[l] = "pending"}
<1>1. ASSUME NEW l \in HoldLayers, Released(l, s)
      PROVE  ~ClearedBefore(rank, l, TurnedOn(a, s))
  <2>1. ASSUME NEW t \in TurnedOn(a, s) PROVE FALSE
    <3>1. l \in Layers /\ l # t
      BY DEF TurnedOn, ToggleLayers, HoldLayers
    <3> QED BY <1>1, <3>1, LoneRelease
  <2> QED BY <2>1 DEF ClearedBefore
<1> QED BY <1>1 DEF Tapped

(* For any layers and any two orders of the map: a pass over a report in which *)
(* one button moved leaves the same entries and fires the same taps.           *)
THEOREM OrderIsInvisible == Spec => []OrderDoesNotMatter
<1>1. IInv => OrderDoesNotMatter
  <2> SUFFICES ASSUME IInv, \A l, m \in Layers : Trigger(l) = Trigger(m) => l = m,
                      NEW s \in SUBSET Buttons, NEW c \in Configs,
                      \A a, b \in (s \ prev) \cup (prev \ s) : a = b
               PROVE  /\ Tapped(c.rank, ActiveLayer, s) = Tapped(config.rank, ActiveLayer, s)
                      /\ \A l \in Layers : NextEntry(c.rank, l, ActiveLayer, s)
                                             = NextEntry(config.rank, l, ActiveLayer, s)
    BY DEF OrderDoesNotMatter
  <2>1. config \in Configs
    BY DEF IInv, TypeOK
  <2>2. Tapped(c.rank, ActiveLayer, s) = Tapped(config.rank, ActiveLayer, s)
    BY TapsAnyOrder
  <2>3. ASSUME NEW l \in Layers
        PROVE  NextEntry(c.rank, l, ActiveLayer, s) = NextEntry(config.rank, l, ActiveLayer, s)
    <3>1. CASE l \notin HoldLayers \/ Skipped(l, ActiveLayer)
      BY <3>1 DEF NextEntry
    <3>2. CASE l \in HoldLayers /\ ~Skipped(l, ActiveLayer)
      <4>1. TurnedOn(ActiveLayer, s) = {} =>
              VisitedEntry(c.rank, l, ActiveLayer, s)
                = VisitedEntry(config.rank, l, ActiveLayer, s)
        BY DEF VisitedEntry, ClearedBefore
      <4> QED BY <2>1, <3>2, <4>1, EntryAnyOrder
    <3> QED BY <3>1, <3>2
  <2> QED BY <2>2, <2>3
<1> QED BY <1>1, InvariantHolds, PTL

--------------------------------------------------------------------------------
(* LayerLoop implements LayerEngine.                                           *)

(* What the whole pass over frame makes of the containers it started with.     *)
On == Atomic!TurnedOn(active, frame)
Off == Atomic!TurnedOff(active, frame)
Taps == Atomic!Tapped(config.rank, active, frame)
Entry(l) == Atomic!VisitedEntry(config.rank, l, active, frame)
Restarts(l) == Pressed(l, frame) /\ active = NoLayer

(* Containers that update_tap_hold can leave behind.                           *)
Sound(entries, ages, on) ==
  /\ entries \in [Layers -> {"none", "pending", "activated"}]
  /\ ages \in [Layers -> 0 .. MaxElapsed]
  /\ on \in SUBSET ToggleLayers
  /\ \A l \in Layers : /\ entries[l] # "none" => l \in HoldLayers
                       /\ entries[l] # "pending" => ages[l] = 0

(* What a walk that has seen some of the layers has made of the containers.  A *)
(* layer seen early loses its entry to one that turned on later; one still to  *)
(* come has lost it to any that turned on.                                     *)
EntrySeen(seen, l) ==
  IF l \notin HoldLayers \/ Skipped(l, active) THEN start.tap_hold[l]
  ELSE IF ClearedAfter(config.rank, l, On \cap seen) THEN "none"
  ELSE Entry(l)

EntryUnseen(seen, l) == IF On \cap seen # {} THEN "none" ELSE start.tap_hold[l]

Progress(seen, entries, ages, on, taps) ==
  /\ on = (start.toggled \ (Off \cap seen)) \cup (On \cap seen)
  /\ taps = Taps \cap seen
  /\ \A l \in Layers :
       /\ entries[l] = IF l \in seen THEN EntrySeen(seen, l) ELSE EntryUnseen(seen, l)
       /\ ages[l] = IF entries[l] = "pending" /\ ~(l \in seen /\ Restarts(l))
                    THEN start.elapsed[l] ELSE 0

WalkTypes ==
  /\ config \in Configs
  /\ prev \in SUBSET Buttons /\ frame \in SUBSET Buttons
  /\ todo \in SUBSET Layers /\ tapped \in SUBSET Layers
  /\ Sound(tap_hold, elapsed, toggled)
  /\ Sound(start.tap_hold, start.elapsed, start.toggled)

(* The inductive invariant of the walk: it goes by rank, holds on to the       *)
(* active layer it began with, and is as far as it should be.                  *)
WInv ==
  /\ WalkTypes
  /\ \A l \in todo, m \in Layers \ todo : config.rank[m] < config.rank[l]
  /\ Walking => /\ active = Atomic!ActiveLayer
                /\ Progress(Layers \ todo, tap_hold, elapsed, toggled, tapped)

--------------------------------------------------------------------------------
(* A walk begun without an active layer found none live; one begun with one    *)
(* found that one live.                                                        *)
LEMMA WalkActive ==
  ASSUME WInv, Walking
  PROVE  /\ active = NoLayer => /\ start.toggled = {}
                                /\ \A l \in Layers : start.tap_hold[l] # "activated"
         /\ active # NoLayer => /\ active \in Layers
                                /\ \/ active \in start.toggled
                                   \/ start.tap_hold[active] = "activated"
<1> DEFINE live == start.toggled \cup {l \in Layers : start.tap_hold[l] = "activated"}
<1>1. live \in SUBSET Layers
  BY DEF WInv, WalkTypes, Sound, ToggleLayers
<1>2. config.rank \in [Layers -> Nat] /\ NoLayer \notin Layers
  BY ConfigAssumption DEF WInv, WalkTypes
<1>3. active = IF live = {} THEN NoLayer
               ELSE CHOOSE l \in live : \A m \in live : config.rank[l] <= config.rank[m]
  BY DEF WInv, Atomic!ActiveLayer, Atomic!Live, Atomic!FirstOf
<1>4. CASE live = {}
  BY <1>3, <1>4
<1>5. CASE live # {}
  <2>1. \E l \in live : \A m \in live : config.rank[l] <= config.rank[m]
    <3> HIDE DEF live
    <3> QED BY <1>1, <1>2, <1>5, FirstExists
  <2>2. active \in live
    <3> HIDE DEF live
    <3> QED BY <1>3, <1>5, <2>1
  <2> QED BY <1>1, <1>2, <2>2
<1> QED BY <1>4, <1>5

(* What layer l finds when its turn has come: the layers that turned on so far *)
(* are those that come before it, and its toggle is as the walk found it.      *)
LEMMA AtItsTurn ==
  ASSUME WInv, NEW l \in todo, \A m \in todo : config.rank[l] <= config.rank[m]
  PROVE  /\ l \in Layers /\ Walking
         /\ \A m \in todo \ {l} : config.rank[l] < config.rank[m]
         /\ ClearedBefore(config.rank, l, On) <=> On \cap (Layers \ todo) # {}
         /\ l \in toggled <=> l \in start.toggled
         /\ tap_hold[l] = EntryUnseen(Layers \ todo, l)
         /\ tap_hold[l] = "pending" => elapsed[l] = start.elapsed[l]
<1> DEFINE seen == Layers \ todo
<1>1. l \in Layers /\ Walking /\ todo \subseteq Layers
  BY DEF WInv, WalkTypes, Walking
<1>2. /\ config.rank \in [Layers -> Nat]
      /\ \A m, n \in Layers : config.rank[m] = config.rank[n] => m = n
  BY ConfigAssumption DEF WInv, WalkTypes
<1>3. ASSUME NEW m \in todo \ {l} PROVE config.rank[l] < config.rank[m]
  <2>1. m \in Layers /\ l # m
    BY <1>1
  <2>2. config.rank[l] \in Nat /\ config.rank[m] \in Nat /\ config.rank[l] # config.rank[m]
    BY <1>1, <1>2, <2>1
  <2> QED BY <2>2
<1>4. On \subseteq Layers /\ l \notin seen
  BY DEF On, Atomic!TurnedOn, Atomic!ToggleLayers
<1>5. \A m \in seen : config.rank[m] < config.rank[l]
  BY DEF WInv
<1>6. ClearedBefore(config.rank, l, On) <=> On \cap seen # {}
  <2>1. ASSUME NEW t \in On PROVE config.rank[t] < config.rank[l] <=> t \in seen
    BY <1>1, <1>2, <1>3, <1>4, <1>5
  <2> QED BY <2>1 DEF ClearedBefore
<1>7. Progress(seen, tap_hold, elapsed, toggled, tapped)
  BY <1>1 DEF WInv
<1>8. l \in toggled <=> l \in start.toggled
  BY <1>4, <1>7 DEF Progress
<1> QED BY <1>1, <1>3, <1>4, <1>6, <1>7, <1>8 DEF Progress

(* What a turn does to the containers, whichever of its branches is taken.     *)
TurnOf(l) ==
  /\ toggled' = IF l \in On THEN toggled \cup {l}
                ELSE IF l \in Off THEN toggled \ {l} ELSE toggled
  /\ tapped' = IF l \in Taps THEN tapped \cup {l} ELSE tapped
  /\ tap_hold' = [m \in Layers |->
                    IF l \in On THEN "none"
                    ELSE IF m = l /\ l \in HoldLayers /\ ~Skipped(l, active) THEN Entry(l)
                    ELSE tap_hold[m]]
  /\ elapsed' = [m \in Layers |->
                   IF tap_hold'[m] = "pending" /\ ~(m = l /\ Restarts(l))
                   THEN elapsed[m] ELSE 0]

(* The entry a hold layer is left with, and whether its tap fires, told from   *)
(* what its turn finds.  No toggle layer is on if the entry is pending.        *)
LEMMA HoldAtItsTurn ==
  ASSUME WInv, NEW l \in todo, \A m \in todo : config.rank[l] <= config.rank[m],
         l \in HoldLayers, ~Skipped(l, active)
  PROVE  /\ tap_hold[l] = "pending" => toggled = {}
         /\ l \in Taps <=> Released(l, frame) /\ tap_hold[l] = "pending"
         /\ Entry(l) = IF Restarts(l) THEN "pending"
                       ELSE IF tap_hold[l] = "none" \/ Released(l, frame) THEN "none"
                       ELSE IF tap_hold[l] = "activated" THEN "activated"
                       ELSE IF elapsed[l] >= config.layers[l].hold_timeout THEN "activated"
                       ELSE "pending"
         /\ l \notin On /\ l \notin Off
<1> DEFINE seen == Layers \ todo
<1>1. /\ l \in Layers /\ Walking
      /\ ClearedBefore(config.rank, l, On) <=> On \cap seen # {}
      /\ tap_hold[l] = IF On \cap seen # {} THEN "none" ELSE start.tap_hold[l]
      /\ tap_hold[l] = "pending" => elapsed[l] = start.elapsed[l]
  BY AtItsTurn DEF EntryUnseen
<1>2. tap_hold[l] = "pending" => start.toggled = {} /\ On \cap seen = {}
  <2> SUFFICES ASSUME tap_hold[l] = "pending" PROVE start.toggled = {} /\ On \cap seen = {}
    OBVIOUS
  <2>1. start.tap_hold[l] = "pending" /\ On \cap seen = {}
    BY <1>1
  <2>2. active # l
    <3>1. l \notin start.toggled
      BY DEF WInv, WalkTypes, Sound, ToggleLayers, HoldLayers
    <3>2. l \in Layers => l # NoLayer
      BY ConfigAssumption
    <3> QED BY <1>1, <2>1, <3>1, <3>2, WalkActive
  <2> QED BY <1>1, <2>1, <2>2, WalkActive DEF Skipped
<1>3. tap_hold[l] = "pending" => toggled = {}
  <2>1. toggled = (start.toggled \ (Off \cap seen)) \cup (On \cap seen)
    BY <1>1 DEF WInv, Progress
  <2> QED BY <1>2, <2>1
<1>4. l \in Taps <=> Released(l, frame) /\ tap_hold[l] = "pending"
  BY <1>1 DEF Taps, Atomic!Tapped, Atomic!HoldLayers, HoldLayers, Atomic!Skipped, Skipped,
              Atomic!Released, Released, Atomic!Trigger, Trigger, On,
              Atomic!ClearedBefore, ClearedBefore
<1>5. Entry(l) = IF Restarts(l) THEN "pending"
                 ELSE IF tap_hold[l] = "none" \/ Released(l, frame) THEN "none"
                 ELSE IF tap_hold[l] = "activated" THEN "activated"
                 ELSE IF start.toggled # {} \/ ClearedBefore(config.rank, l, On) THEN "none"
                 ELSE IF start.elapsed[l] >= config.layers[l].hold_timeout THEN "activated"
                 ELSE "pending"
  <2>1. ClearedBefore(config.rank, l, On)
          <=> Atomic!ClearedBefore(config.rank, l, Atomic!TurnedOn(active, frame))
    BY DEF ClearedBefore, Atomic!ClearedBefore, On
  <2>2. tap_hold[l] = IF Atomic!ClearedBefore(config.rank, l, Atomic!TurnedOn(active, frame))
                      THEN "none" ELSE start.tap_hold[l]
    BY <1>1, <2>1
  <2> QED BY <1>1, <2>1, <2>2
          DEF Entry, Atomic!VisitedEntry, Restarts, Atomic!Pressed, Pressed,
              Atomic!Released, Released, Atomic!Trigger, Trigger
<1>6. tap_hold[l] \in {"none", "pending", "activated"}
  BY <1>1 DEF WInv, WalkTypes, Sound
<1>7. l \notin On /\ l \notin Off
  BY DEF HoldLayers, On, Off, Atomic!TurnedOn, Atomic!TurnedOff, Atomic!ToggleLayers
<1> QED BY <1>1, <1>2, <1>3, <1>4, <1>5, <1>6, <1>7

LEMMA ToggleAtItsTurn ==
  ASSUME WInv, NEW l \in todo, \A m \in todo : config.rank[l] <= config.rank[m]
  PROVE  /\ l \in On <=> /\ l \in ToggleLayers /\ active = NoLayer
                         /\ Released(l, frame) /\ l \notin toggled
         /\ l \in Off <=> /\ l \in ToggleLayers /\ ~Skipped(l, active)
                          /\ Released(l, frame) /\ l \in toggled
         /\ l \notin HoldLayers => l \notin Taps
<1>1. l \in Layers /\ Walking /\ (l \in toggled <=> l \in start.toggled)
  BY AtItsTurn
<1> QED
  BY <1>1 DEF On, Off, Taps, Atomic!TurnedOn, Atomic!TurnedOff, Atomic!Tapped,
              Atomic!ToggleLayers, ToggleLayers, Atomic!HoldLayers, HoldLayers,
              Atomic!Skipped, Skipped, Atomic!Released, Released, Atomic!Trigger, Trigger

(* An entry that is not pending has no age to lose.                            *)
LEMMA SetEntryAges ==
  ASSUME WInv, NEW l \in Layers, NEW entry, NEW age, SetEntry(l, entry, age),
         age = IF entry = "pending" /\ ~Restarts(l) THEN elapsed[l] ELSE 0
  PROVE  elapsed' = [m \in Layers |->
                       IF tap_hold'[m] = "pending" /\ ~(m = l /\ Restarts(l))
                       THEN elapsed[m] ELSE 0]
  BY DEF SetEntry, WInv, WalkTypes, Sound

LEMMA KeptAges ==
  ASSUME WInv, NEW l \in Layers, UNCHANGED <<tap_hold, elapsed>>,
         tap_hold[l] = "pending" => ~Restarts(l)
  PROVE  elapsed' = [m \in Layers |->
                       IF tap_hold'[m] = "pending" /\ ~(m = l /\ Restarts(l))
                       THEN elapsed[m] ELSE 0]
  BY DEF WInv, WalkTypes, Sound

Step(l) == \/ Skip(l) \/ ToggleOff(l) \/ ToggleOn(l) \/ ToggleStays(l)
           \/ Press(l) \/ NoEntry(l) \/ Release(l) \/ Hold(l)

(* Every branch of the loop body does what TurnOf says.                        *)
LEMMA EveryTurn ==
  ASSUME WInv, NEW l \in Layers, Step(l)
  PROVE  Turn(l) /\ TurnOf(l)
<1>1. Turn(l)
  BY DEF Step, Skip, ToggleOff, ToggleOn, ToggleStays, Press, NoEntry, Release, Hold, HoldTurn
<1>2. l \in todo /\ \A m \in todo : config.rank[l] <= config.rank[m]
  BY <1>1 DEF Turn
<1>3. tap_hold = [m \in Layers |-> tap_hold[m]] /\ NoLayer \notin Layers
  BY ConfigAssumption DEF WInv, WalkTypes, Sound
<1>4. l \in HoldLayers => l \notin ToggleLayers
  BY DEF HoldLayers, ToggleLayers
<1>5. l \notin HoldLayers => tap_hold[l] = "none"
  BY DEF WInv, WalkTypes, Sound
<1>6. CASE Skip(l)
  <2>1. Skipped(l, active) /\ active # NoLayer /\ ~Restarts(l)
    BY <1>6 DEF Skip, Skipped, Restarts
  <2>2. l \notin On /\ l \notin Off /\ l \notin Taps
    BY <1>2, <2>1, ToggleAtItsTurn
       DEF Taps, Atomic!Tapped, Atomic!Skipped, Skipped
  <2> QED BY <1>3, <1>6, <2>1, <2>2, <1>1, KeptAges DEF Skip, TurnOf
<1>7. CASE ToggleOff(l)
  <2>1. l \in Off /\ l \notin On /\ l \notin Taps /\ l \notin HoldLayers
    BY <1>2, <1>4, <1>7, ToggleAtItsTurn DEF ToggleOff, Skipped
  <2> QED BY <1>1, <1>3, <1>5, <1>7, <2>1, KeptAges DEF ToggleOff, TurnOf
<1>8. CASE ToggleOn(l)
  <2>1. l \in On /\ l \notin Taps
    BY <1>2, <1>4, <1>8, ToggleAtItsTurn DEF ToggleOn
  <2> QED BY <1>1, <1>8, <2>1 DEF ToggleOn, TurnOf
<1>9. CASE ToggleStays(l)
  <2>1. l \notin Off /\ l \notin On /\ l \notin Taps /\ l \notin HoldLayers
    BY <1>2, <1>4, <1>9, ToggleAtItsTurn DEF ToggleStays
  <2> QED BY <1>1, <1>3, <1>5, <1>9, <2>1, KeptAges DEF ToggleStays, TurnOf
<1>10. CASE Press(l)
  <2>1. l \in HoldLayers /\ ~Skipped(l, active) /\ Restarts(l) /\ ~Released(l, frame)
    BY <1>10 DEF Press, Skipped, Restarts, Pressed, Released
  <2>2. l \notin On /\ l \notin Off /\ l \notin Taps /\ Entry(l) = "pending"
    BY <1>2, <2>1, HoldAtItsTurn
  <2>3. tap_hold' = [m \in Layers |-> IF m = l THEN "pending" ELSE tap_hold[m]]
    BY <1>3, <1>10 DEF Press, SetEntry
  <2>4. elapsed' = [m \in Layers |->
                      IF tap_hold'[m] = "pending" /\ ~(m = l /\ Restarts(l))
                      THEN elapsed[m] ELSE 0]
    BY <1>10, <2>1, SetEntryAges DEF Press
  <2> QED BY <1>1, <1>10, <2>1, <2>2, <2>3, <2>4 DEF Press, TurnOf
<1>11. CASE NoEntry(l) \/ Release(l) \/ Hold(l)
  <2>1. l \in HoldLayers /\ ~Skipped(l, active) /\ ~Restarts(l)
    BY <1>11 DEF NoEntry, Release, Hold, HoldTurn, Skipped, Restarts
  <2>2. /\ l \notin On /\ l \notin Off
        /\ l \in Taps <=> Released(l, frame) /\ tap_hold[l] = "pending"
        /\ tap_hold[l] = "pending" => toggled = {}
        /\ Entry(l) = IF tap_hold[l] = "none" \/ Released(l, frame) THEN "none"
                      ELSE IF tap_hold[l] = "activated" THEN "activated"
                      ELSE IF elapsed[l] >= config.layers[l].hold_timeout THEN "activated"
                      ELSE "pending"
    BY <1>2, <2>1, HoldAtItsTurn
  <2>3. toggled' = toggled
    BY <1>11 DEF NoEntry, Release, Hold, HoldTurn
  <2>4. tap_hold[l] \in {"none", "pending", "activated"}
    BY DEF WInv, WalkTypes, Sound
  <2>5. CASE NoEntry(l)
    BY <1>1, <1>3, <2>1, <2>2, <2>3, <2>5, KeptAges DEF NoEntry, TurnOf
  <2>6. CASE Release(l)
    <3>1. tap_hold' = [m \in Layers |-> IF m = l THEN "none" ELSE tap_hold[m]]
      BY <1>3, <2>6 DEF Release, SetEntry
    <3>2. elapsed' = [m \in Layers |->
                        IF tap_hold'[m] = "pending" /\ ~(m = l /\ Restarts(l))
                        THEN elapsed[m] ELSE 0]
      BY <2>6, SetEntryAges DEF Release
    <3> QED BY <1>1, <2>1, <2>2, <2>3, <2>4, <2>6, <3>1, <3>2 DEF Release, TurnOf
  <2>7. CASE Hold(l)
    <3>1. tap_hold' = [m \in Layers |-> IF m = l THEN Entry(l) ELSE tap_hold[m]]
      BY <1>3, <2>2, <2>4, <2>7 DEF Hold, SetEntry
    <3>2. elapsed' = [m \in Layers |->
                        IF tap_hold'[m] = "pending" /\ ~(m = l /\ Restarts(l))
                        THEN elapsed[m] ELSE 0]
      <4>1. CASE UNCHANGED <<tap_hold, elapsed>>
        BY <2>1, <4>1, KeptAges
      <4>2. CASE SetEntry(l, "none", 0)
        BY <4>2, SetEntryAges
      <4>3. CASE SetEntry(l, "activated", 0)
        BY <4>3, SetEntryAges
      <4> QED BY <2>7, <4>1, <4>2, <4>3 DEF Hold
    <3> QED BY <1>1, <2>1, <2>2, <2>3, <2>7, <3>1, <3>2 DEF Hold, TurnOf
  <2> QED BY <1>11, <2>5, <2>6, <2>7
<1> QED BY <1>6, <1>7, <1>8, <1>9, <1>10, <1>11 DEF Step

--------------------------------------------------------------------------------
(* A turn takes the walk one layer further.                                    *)
LEMMA TurnProgress ==
  ASSUME WInv, NEW l \in Layers, Turn(l), TurnOf(l)
  PROVE  Progress((Layers \ todo) \cup {l}, tap_hold', elapsed', toggled', tapped')
<1> DEFINE seen == Layers \ todo
           next == seen \cup {l}
<1>1. l \in todo /\ \A m \in todo : config.rank[l] <= config.rank[m]
  BY DEF Turn
<1>2. /\ Walking /\ l \notin seen
      /\ \A m \in todo \ {l} : config.rank[l] < config.rank[m]
      /\ ClearedBefore(config.rank, l, On) <=> On \cap seen # {}
  BY <1>1, AtItsTurn
<1>3. Progress(seen, tap_hold, elapsed, toggled, tapped)
  BY <1>2 DEF WInv
<1>4. \A m \in seen : config.rank[m] < config.rank[l]
  BY <1>1 DEF WInv
<1>5. On \cap next = IF l \in On THEN (On \cap seen) \cup {l} ELSE On \cap seen
  OBVIOUS
<1>6. toggled' = (start.toggled \ (Off \cap next)) \cup (On \cap next)
  <2>1. toggled = (start.toggled \ (Off \cap seen)) \cup (On \cap seen)
    BY <1>3 DEF Progress
  <2>2. l \in On => l \notin Off
    BY DEF On, Off, Atomic!TurnedOn, Atomic!TurnedOff
  <2>3. l \in Off => l \notin On \cap seen
    BY <1>2
  <2> QED BY <1>2, <2>1, <2>2, <2>3 DEF TurnOf
<1>7. tapped' = Taps \cap next
  BY <1>3 DEF Progress, TurnOf
<1>8. ASSUME NEW m \in Layers
      PROVE  tap_hold'[m] = IF m \in next THEN EntrySeen(next, m) ELSE EntryUnseen(next, m)
  <2>1. tap_hold[m] = IF m \in seen THEN EntrySeen(seen, m) ELSE EntryUnseen(seen, m)
    BY <1>3 DEF Progress
  <2>2. l \in On => active = NoLayer /\ l \notin HoldLayers
    BY DEF On, Atomic!TurnedOn, Atomic!ToggleLayers, HoldLayers
  <2>3. m \notin HoldLayers => start.tap_hold[m] = "none"
    BY DEF WInv, WalkTypes, Sound
  <2>4. CASE m = l
    <3>1. tap_hold'[m] = IF l \in On THEN "none"
                         ELSE IF l \in HoldLayers /\ ~Skipped(l, active) THEN Entry(l)
                         ELSE tap_hold[l]
      BY <2>4 DEF TurnOf
    <3>2. ~ClearedAfter(config.rank, l, On \cap next)
      <4> SUFFICES ASSUME NEW t \in On \cap next, config.rank[l] < config.rank[t] PROVE FALSE
        BY DEF ClearedAfter
      <4>1. config.rank \in [Layers -> Nat]
        BY ConfigAssumption DEF WInv, WalkTypes
      <4>2. config.rank[l] \in Nat /\ t \in Layers /\ config.rank[t] \in Nat
        BY <4>1 DEF WInv, WalkTypes
      <4>3. t = l \/ config.rank[t] < config.rank[l]
        BY <1>4
      <4> QED BY <4>2, <4>3
    <3>3. Skipped(l, active) => On = {}
      BY DEF Skipped, On, Atomic!TurnedOn
    <3>4. tap_hold[l] = EntryUnseen(seen, l)
      BY <1>2, <2>1, <2>4
    <3>5. l \notin HoldLayers \/ Skipped(l, active)
            => IF l \in On THEN start.tap_hold[l] = "none" ELSE tap_hold[l] = start.tap_hold[l]
      BY <2>3, <2>4, <3>3, <3>4 DEF EntryUnseen
    <3>6. tap_hold'[l] = EntrySeen(next, l)
      BY <2>2, <2>4, <3>1, <3>2, <3>5 DEF EntrySeen
    <3> QED BY <2>4, <3>6
  <2>5. CASE m # l /\ l \notin On
    <3>1. tap_hold'[m] = tap_hold[m] /\ On \cap next = On \cap seen
      BY <1>5, <2>5 DEF TurnOf
    <3> QED BY <2>1, <2>5, <3>1 DEF EntrySeen, EntryUnseen
  <2>6. CASE m # l /\ l \in On
    <3>1. tap_hold'[m] = "none"
      BY <2>6 DEF TurnOf
    <3>2. CASE m \in seen
      <4>1. ClearedAfter(config.rank, m, On \cap next)
        BY <1>4, <1>5, <2>6, <3>2 DEF ClearedAfter
      <4>2. ~Skipped(m, active)
        BY <2>2, <2>6 DEF Skipped
      <4> QED BY <2>3, <3>1, <3>2, <4>1, <4>2 DEF EntrySeen
    <3>3. CASE m \notin seen
      BY <1>5, <2>6, <3>1, <3>3 DEF EntryUnseen
    <3> QED BY <3>2, <3>3
  <2> QED BY <2>4, <2>5, <2>6
<1>9. ASSUME NEW m \in Layers
      PROVE  elapsed'[m] = IF tap_hold'[m] = "pending" /\ ~(m \in next /\ Restarts(m))
                           THEN start.elapsed[m] ELSE 0
  <2>1. elapsed[m] = IF tap_hold[m] = "pending" /\ ~(m \in seen /\ Restarts(m))
                     THEN start.elapsed[m] ELSE 0
    BY <1>3 DEF Progress
  <2>2. elapsed'[m] = IF tap_hold'[m] = "pending" /\ ~(m = l /\ Restarts(l))
                      THEN elapsed[m] ELSE 0
    BY DEF TurnOf
  <2>3. tap_hold'[m] = "pending" /\ ~(m = l /\ Restarts(l)) => tap_hold[m] = "pending"
    <3>1. CASE m = l /\ l \in HoldLayers /\ ~Skipped(l, active)
      BY <1>1, <3>1, HoldAtItsTurn DEF TurnOf, WInv, WalkTypes, Sound
    <3>2. CASE ~(m = l /\ l \in HoldLayers /\ ~Skipped(l, active))
      BY <3>2 DEF TurnOf
    <3> QED BY <3>1, <3>2
  <2> QED BY <1>2, <2>1, <2>2, <2>3
<1> QED BY <1>6, <1>7, <1>8, <1>9 DEF Progress

LEMMA EntryType ==
  ASSUME NEW l, start.tap_hold[l] \in {"none", "pending", "activated"}
  PROVE  Entry(l) \in {"none", "pending", "activated"}
  BY DEF Entry, Atomic!VisitedEntry

LEMMA TurnTypes ==
  ASSUME WInv, NEW l \in Layers, Turn(l), TurnOf(l)
  PROVE  WalkTypes'
<1>1. Walking
  BY DEF Turn, Walking
<1>2. UNCHANGED <<config, frame, start>> /\ prev' \in SUBSET Buttons
  BY DEF Turn, loop, WInv, WalkTypes
<1>3. HoldLayers' = HoldLayers /\ ToggleLayers' = ToggleLayers
  BY <1>2 DEF HoldLayers, ToggleLayers
<1>4. On \subseteq ToggleLayers /\ Taps \subseteq Layers
  BY DEF On, Taps, Atomic!TurnedOn, Atomic!Tapped, Atomic!ToggleLayers, ToggleLayers,
         Atomic!HoldLayers
<1>5. todo' \in SUBSET Layers /\ tapped' \in SUBSET Layers
  BY <1>4 DEF Turn, TurnOf, WInv, WalkTypes
<1>6. Entry(l) \in {"none", "pending", "activated"}
  BY EntryType DEF WInv, WalkTypes, Sound
<1>7. tap_hold' \in [Layers -> {"none", "pending", "activated"}]
  BY <1>6 DEF TurnOf, WInv, WalkTypes, Sound
<1>8. elapsed' \in [Layers -> 0 .. MaxElapsed]
  BY ConfigAssumption DEF TurnOf, WInv, WalkTypes, Sound
<1>9. toggled' \in SUBSET ToggleLayers
  BY <1>4 DEF TurnOf, WInv, WalkTypes, Sound
<1>10. \A m \in Layers : /\ tap_hold'[m] # "none" => m \in HoldLayers
                         /\ tap_hold'[m] # "pending" => elapsed'[m] = 0
  BY DEF TurnOf, WInv, WalkTypes, Sound
<1>11. Sound(tap_hold, elapsed, toggled)'
  BY <1>3, <1>7, <1>8, <1>9, <1>10 DEF Sound
<1>12. Sound(start.tap_hold, start.elapsed, start.toggled)'
  BY <1>2, <1>3 DEF Sound, WInv, WalkTypes
<1> QED BY <1>2, <1>5, <1>11, <1>12 DEF WInv, WalkTypes

(* While the walk goes on, what it is to lead to stays the same.               *)
LEMMA GoalIsFixed ==
  ASSUME Walking, Walking', UNCHANGED <<config, prev, frame, active, start>>
  PROVE  /\ On' = On /\ Off' = Off /\ Taps' = Taps
         /\ Atomic!ActiveLayer' = Atomic!ActiveLayer
         /\ \A l : Entry(l)' = Entry(l)
<1>1. On' = On
  BY DEF On, Atomic!TurnedOn, Atomic!ToggleLayers, Atomic!Released, Atomic!Trigger
<1>2. Off' = Off
  BY DEF Off, Atomic!TurnedOff, Atomic!ToggleLayers, Atomic!Released, Atomic!Trigger,
         Atomic!Skipped
<1>3. \A l : Atomic!Released(l, frame)' = Atomic!Released(l, frame)
  BY DEF Atomic!Released, Atomic!Trigger
<1>4. \A l : Atomic!ClearedBefore(config.rank, l, On)' = Atomic!ClearedBefore(config.rank, l, On)
  BY <1>1 DEF Atomic!ClearedBefore
<1>5. Taps' = Taps
  BY <1>3, <1>4 DEF On, Taps, Atomic!Tapped, Atomic!HoldLayers, Atomic!Skipped
<1>6. Atomic!ActiveLayer' = Atomic!ActiveLayer
  BY DEF Atomic!ActiveLayer, Atomic!Live, Atomic!FirstOf
<1>7. ASSUME NEW l PROVE Entry(l)' = Entry(l)
  BY <1>3, <1>4 DEF On, Entry, Atomic!VisitedEntry, Atomic!Pressed, Atomic!Trigger
<1> QED BY <1>1, <1>2, <1>5, <1>6, <1>7

LEMMA TurnWInv ==
  ASSUME WInv, NEW l \in Layers, Turn(l), TurnOf(l)
  PROVE  WInv'
<1>1. Walking /\ l \in todo /\ todo' = todo \ {l} /\ todo \subseteq Layers
  BY DEF Turn, Walking, WInv, WalkTypes
<1>2. ASSUME NEW m \in todo', NEW n \in Layers \ todo' PROVE config'.rank[n] < config'.rank[m]
  <2>1. \A x \in todo \ {l} : config.rank[l] < config.rank[x]
    BY AtItsTurn DEF Turn
  <2>2. n \in Layers \ todo \/ n = l
    BY <1>1
  <2> QED BY <1>1, <2>1, <2>2 DEF Turn, WInv
<1>3. ASSUME Walking'
      PROVE  /\ active' = Atomic!ActiveLayer'
             /\ Progress(Layers \ todo, tap_hold, elapsed, toggled, tapped)'
  <2>1. todo # {l}
    BY <1>1, <1>3 DEF Walking
  <2>2. UNCHANGED <<config, prev, frame, active, start>>
    BY <2>1 DEF Turn, loop
  <2>3. /\ On' = On /\ Off' = Off /\ Taps' = Taps
        /\ Atomic!ActiveLayer' = Atomic!ActiveLayer
        /\ \A m : Entry(m)' = Entry(m)
    BY <1>1, <1>3, <2>2, GoalIsFixed
  <2>4. Layers \ todo' = (Layers \ todo) \cup {l}
    BY <1>1
  <2>5. Progress(Layers \ todo', tap_hold', elapsed', toggled', tapped')
    BY <2>4, TurnProgress
  <2>6. /\ \A m : EntrySeen(Layers \ todo, m)' = EntrySeen(Layers \ todo', m)
        /\ \A m : EntryUnseen(Layers \ todo, m)' = EntryUnseen(Layers \ todo', m)
        /\ \A m : Restarts(m)' = Restarts(m)
    BY <2>2, <2>3 DEF EntrySeen, EntryUnseen, Restarts, Pressed, Trigger, HoldLayers,
                      Skipped, ClearedAfter
  <2>7. Progress(Layers \ todo, tap_hold, elapsed, toggled, tapped)'
    BY <2>2, <2>3, <2>5, <2>6 DEF Progress
  <2> QED BY <1>1, <2>2, <2>3, <2>7 DEF WInv
<1> QED BY <1>2, <1>3, TurnTypes DEF WInv

(* The last turn is a Poll, the others are not seen.                           *)
LEMMA TurnRefines ==
  ASSUME WInv, NEW l \in Layers, Turn(l), TurnOf(l)
  PROVE  Atomic!Next \/ UNCHANGED Atomic!vars
<1>1. Walking /\ l \in todo /\ todo' = todo \ {l} /\ todo \subseteq Layers
  BY DEF Turn, Walking, WInv, WalkTypes
<1>2. CASE todo # {l}
  <2>1. Walking' /\ UNCHANGED <<config, prev, start>>
    BY <1>1, <1>2 DEF Turn, Walking, loop
  <2> QED BY <1>1, <2>1 DEF Atomic!vars
<1>3. CASE todo = {l}
  <2>1. ~Walking' /\ prev' = frame /\ config' = config
    BY <1>1, <1>3 DEF Turn, Walking
  <2>2. Progress(Layers, tap_hold', elapsed', toggled', tapped')
    <3>1. (Layers \ todo) \cup {l} = Layers
      BY <1>1, <1>3
    <3> QED BY <3>1, TurnProgress
  <2>3. active = Atomic!ActiveLayer
    BY <1>1 DEF WInv
  <2>4. toggled' = (start.toggled \ Off) \cup On
    <3>1. On \cap Layers = On /\ Off \cap Layers = Off
      BY DEF On, Off, Atomic!TurnedOn, Atomic!TurnedOff, Atomic!ToggleLayers
    <3> QED BY <2>2, <3>1 DEF Progress
  <2>5. tap_hold' = [m \in Layers |-> Atomic!NextEntry(config.rank, m, active, frame)]
    <3>1. ASSUME NEW m \in Layers
          PROVE  tap_hold'[m] = Atomic!NextEntry(config.rank, m, active, frame)
      <4>1. tap_hold'[m] = EntrySeen(Layers, m) /\ On \cap Layers = On
        BY <2>2 DEF Progress, On, Atomic!TurnedOn, Atomic!ToggleLayers
      <4> QED
        BY <1>1, <4>1
           DEF EntrySeen, On, Entry, Atomic!NextEntry, Atomic!HoldLayers, HoldLayers,
               Atomic!Skipped, Skipped, Atomic!ClearedAfter, ClearedAfter
    <3>2. tap_hold' = [m \in Layers |-> tap_hold'[m]]
      BY DEF TurnOf
    <3> QED BY <3>1, <3>2
  <2>6. elapsed' = [m \in Layers |->
                      IF tap_hold'[m] = "pending" /\ ~(Atomic!Pressed(m, frame) /\ active = NoLayer)
                      THEN start.elapsed[m] ELSE 0]
    <3>1. ASSUME NEW m \in Layers
          PROVE  elapsed'[m] = IF tap_hold'[m] = "pending"
                                    /\ ~(Atomic!Pressed(m, frame) /\ active = NoLayer)
                               THEN start.elapsed[m] ELSE 0
      BY <2>2 DEF Progress, Restarts, Pressed, Atomic!Pressed, Trigger, Atomic!Trigger
    <3>2. elapsed' = [m \in Layers |-> elapsed'[m]]
      BY DEF TurnOf
    <3> QED BY <3>1, <3>2
  <2>7. Atomic!UpdateTapHold(frame)
    BY <1>1, <2>1, <2>3, <2>4, <2>5, <2>6 DEF On, Off, Atomic!UpdateTapHold
  <2>8. Atomic!Poll(frame)
    BY <2>1, <2>7 DEF Atomic!Poll
  <2>9. frame \in SUBSET Buttons
    BY DEF WInv, WalkTypes
  <2> QED BY <2>8, <2>9 DEF Atomic!Next, Atomic!PollAny
<1> QED BY <1>2, <1>3

LEMMA LoopInitOK == LoopInit => WInv /\ Atomic!Init
<1> SUFFICES ASSUME LoopInit PROVE WInv /\ Atomic!Init
  OBVIOUS
<1>1. Sound(tap_hold, elapsed, toggled)
  BY ConfigAssumption DEF LoopInit, Init, Sound
<1>2. ~Walking /\ WalkTypes
  BY <1>1 DEF LoopInit, Init, WalkTypes, Walking
<1>3. WInv
  BY <1>2 DEF LoopInit, WInv
<1> QED BY <1>2, <1>3 DEF LoopInit, Init, Atomic!Init

LEMMA BeginOK ==
  ASSUME WInv, NEW s \in SUBSET Buttons, Begin(s)
  PROVE  WInv' /\ UNCHANGED Atomic!vars
<1>1. /\ ~Walking /\ UNCHANGED <<config, prev, tap_hold, elapsed, toggled>>
      /\ start'.tap_hold = tap_hold /\ start'.elapsed = elapsed /\ start'.toggled = toggled
      /\ todo' = Layers /\ tapped' = {} /\ frame' = s
  BY DEF Begin, vars
<1>2. HoldLayers' = HoldLayers /\ ToggleLayers' = ToggleLayers
  BY <1>1 DEF HoldLayers, ToggleLayers
<1>3. Sound(tap_hold, elapsed, toggled)'
  BY <1>1, <1>2 DEF WInv, WalkTypes, Sound
<1>4. Sound(start.tap_hold, start.elapsed, start.toggled)'
  BY <1>1, <1>2 DEF WInv, WalkTypes, Sound
<1>5. WalkTypes'
  BY <1>1, <1>3, <1>4 DEF WInv, WalkTypes
<1>6. ASSUME Walking' PROVE active' = Atomic!ActiveLayer'
  BY <1>1, <1>6
     DEF Begin, ActiveLayer, Live, FirstOf, Atomic!ActiveLayer, Atomic!Live, Atomic!FirstOf
<1>7. Progress(Layers \ todo, tap_hold, elapsed, toggled, tapped)'
  BY <1>1, <1>3 DEF Progress, EntryUnseen, Sound
<1> QED BY <1>1, <1>5, <1>6, <1>7 DEF WInv, Atomic!vars

LEMMA OutsideOK ==
  ASSUME WInv, Outside
  PROVE  WInv' /\ (Atomic!Tick \/ Atomic!Reopen)
<1>1. ~Walking /\ ~Walking' /\ UNCHANGED <<config, todo, tapped, frame, active, start>>
  BY DEF Outside, Walking, loop, Tick, Reopen
<1>2. HoldLayers' = HoldLayers /\ ToggleLayers' = ToggleLayers
  BY <1>1 DEF HoldLayers, ToggleLayers
<1>3. Sound(start.tap_hold, start.elapsed, start.toggled)'
  BY <1>1, <1>2 DEF WInv, WalkTypes, Sound
<1>4. CASE Tick
  <2>1. Sound(tap_hold, elapsed, toggled)'
    BY <1>2, <1>4, ConfigAssumption DEF Tick, WInv, WalkTypes, Sound
  <2>2. WalkTypes'
    BY <1>1, <1>3, <1>4, <2>1 DEF Tick, WInv, WalkTypes
  <2>3. Atomic!Tick
    BY <1>1, <1>4 DEF Tick, Atomic!Tick
  <2> QED BY <1>1, <2>2, <2>3 DEF WInv, Walking
<1>5. CASE Reopen
  <2>1. Sound(tap_hold, elapsed, toggled)'
    BY <1>2, <1>5, ConfigAssumption DEF Reopen, WInv, WalkTypes, Sound
  <2>2. WalkTypes'
    BY <1>1, <1>3, <1>5, <2>1 DEF Reopen, WInv, WalkTypes
  <2>3. Atomic!Reopen
    BY <1>1, <1>5 DEF Reopen, Atomic!Reopen
  <2> QED BY <1>1, <2>2, <2>3 DEF WInv, Walking
<1> QED BY <1>4, <1>5 DEF Outside

LEMMA LoopNextOK == WInv /\ [LoopNext]_loopVars => WInv' /\ [Atomic!Next]_Atomic!vars
<1> SUFFICES ASSUME WInv, [LoopNext]_loopVars PROVE WInv' /\ [Atomic!Next]_Atomic!vars
  OBVIOUS
<1>1. ASSUME NEW s \in SUBSET Buttons, Begin(s) PROVE WInv' /\ [Atomic!Next]_Atomic!vars
  BY <1>1, BeginOK
<1>2. ASSUME NEW l \in Layers, Step(l) PROVE WInv' /\ [Atomic!Next]_Atomic!vars
  BY <1>2, EveryTurn, TurnWInv, TurnRefines
<1>3. CASE Outside
  BY <1>3, OutsideOK DEF Atomic!Next
<1>4. CASE UNCHANGED loopVars
  <2>1. UNCHANGED <<config, prev, tap_hold, elapsed, toggled, todo, tapped, frame, active, start>>
    BY <1>4 DEF loopVars, vars, loop
  <2>2. UNCHANGED Atomic!vars
    BY <2>1 DEF Atomic!vars, Walking
  <2>3. WalkTypes'
    BY <2>1 DEF WInv, WalkTypes, Sound, HoldLayers, ToggleLayers
  <2>4. ASSUME Walking' PROVE /\ active' = Atomic!ActiveLayer'
                              /\ Progress(Layers \ todo, tap_hold, elapsed, toggled, tapped)'
    <3>1. /\ Walking
          /\ On' = On /\ Off' = Off /\ Taps' = Taps
          /\ Atomic!ActiveLayer' = Atomic!ActiveLayer
          /\ \A m : Entry(m)' = Entry(m)
      BY <2>1, <2>4, GoalIsFixed DEF Walking
    <3>2. /\ \A m : EntrySeen(Layers \ todo, m)' = EntrySeen(Layers \ todo, m)
          /\ \A m : EntryUnseen(Layers \ todo, m)' = EntryUnseen(Layers \ todo, m)
          /\ \A m : Restarts(m)' = Restarts(m)
      BY <2>1, <3>1 DEF EntrySeen, EntryUnseen, Restarts, Pressed, Trigger, HoldLayers,
                        Skipped, ClearedAfter
    <3> QED BY <2>1, <3>1, <3>2 DEF Progress, WInv
  <2> QED BY <2>1, <2>2, <2>3, <2>4 DEF WInv
<1> QED BY <1>1, <1>2, <1>3, <1>4 DEF LoopNext, Step

LEMMA WalkInvariant == LoopSpec => []WInv
BY LoopInitOK, LoopNextOK, PTL DEF LoopSpec

(* The loop over the hash map, with containers that change under it, does in   *)
(* every order what one Poll of LayerEngine does, for every configuration.     *)
THEOREM LoopImplementsEngine == LoopSpec => WalkIsOnePoll
BY LoopInitOK, LoopNextOK, WalkInvariant, PTL DEF LoopSpec, WalkIsOnePoll, Atomic!Spec

(* The taps a walk has fired when it ends are those of the closed form.        *)
THEOREM TapsAreTheSame == LoopSpec => TapsAgree
<1>1. WInv /\ [LoopNext]_loopVars =>
        [Walking /\ todo' = {} => tapped' = Atomic!Tapped(config.rank, active, frame)]_loopVars
  <2> SUFFICES ASSUME WInv, LoopNext, Walking, todo' = {}
               PROVE  tapped' = Taps
    BY DEF Taps
  <2>1. PICK l \in Layers : Step(l)
    BY DEF LoopNext, Begin, Outside, Step
  <2>2. Turn(l) /\ TurnOf(l)
    BY <2>1, EveryTurn
  <2>3. (Layers \ todo) \cup {l} = Layers
    BY <2>2 DEF Turn, WInv, WalkTypes
  <2>4. tapped' = Taps \cap Layers
    BY <2>2, <2>3, TurnProgress DEF Progress
  <2> QED BY <2>4 DEF Taps, Atomic!Tapped, Atomic!HoldLayers
<1> QED BY <1>1, WalkInvariant, PTL DEF LoopSpec, TapsAgree

(* The branch of the loop that drops a pending entry under a toggled layer is  *)
(* dead code, whatever the layers and their order.                             *)
THEOREM DropIsNeverNeeded == LoopSpec => []NothingLeftToDrop
<1>1. WInv => NothingLeftToDrop
  <2> SUFFICES ASSUME WInv, NEW l \in todo, l \in HoldLayers,
                      active \in {NoLayer, l}, tap_hold[l] = "pending"
               PROVE  toggled = {}
    BY DEF NothingLeftToDrop, Atomic!HoldLayers, HoldLayers
  <2>1. Walking /\ l \in Layers /\ l \notin Layers \ todo
    BY DEF Walking, WInv, WalkTypes
  <2>2. Progress(Layers \ todo, tap_hold, elapsed, toggled, tapped)
    BY <2>1 DEF WInv
  <2>3. On \cap (Layers \ todo) = {} /\ start.tap_hold[l] = "pending"
    BY <2>1, <2>2 DEF Progress, EntryUnseen
  <2>4. l \notin start.toggled /\ l # NoLayer
    BY <2>1, ConfigAssumption DEF WInv, WalkTypes, Sound, ToggleLayers, HoldLayers
  <2>5. active = NoLayer /\ start.toggled = {}
    BY <2>1, <2>3, <2>4, WalkActive
  <2> QED BY <2>2, <2>3, <2>5 DEF Progress
<1> QED BY <1>1, WalkInvariant, PTL
================================================================================
