# TLA+ models of the Vader 5 Pro driver

The repository drives a game controller, the Flydigi Vader 5 Pro, in two ways: a user-space
daemon (`vader5d`) that reads the controller through hidraw and feeds virtual devices through
uinput, and a small kernel driver (`hid-flydigi`). This directory holds TLA+ models of the parts
of both that keep state, what TLC checks of them on small instances, and what TLAPS proves of
them for every value of the constants.

Paths below are those of the repository (`src/gamepad.cpp` and so on).

## The system

```
 controller --USB--> hidraw --> Gamepad::poll --> Uinput      --> games
     ^                 ^          |   layers      InputDevice --> desktop
     |                 |          v
     |                 +--- test mode, init commands
     +------ Gamepad::send_rumble <-- Uinput::poll_ff <-- games (force feedback)
```

| Component | State it keeps | Operations | Made correct by |
|---|---|---|---|
| Layers (`gamepad.cpp`: `update_tap_hold`, `get_active_layer`) | `tap_hold_states_` (press time, activated), `toggled_layers_`, previous report | one pass per report; a tap action on an early release | toggle and hold layers exclude each other; the active layer is not preempted; an entry lives as long as its press; the order of the hash map does not matter |
| Pipeline (`gamepad.cpp`: `poll`, `process_*`) | previous report, what was suppressed, injected and blanked with it, arrow keys down, float accumulators | `poll`: decode, layers, taps, d-pad, base remaps, layer remaps, gyro, emit | the virtual gamepad shows the report it should, although only differences are sent; no key is left down |
| Virtual devices (`uinput.cpp`) | the codes registered at creation; what was sent so far; the effects table `ff_effects_` | `create`, `emit`, `poll_ff` | as above, also when a write fails; every code sent is registered; the table is what the games uploaded |
| Rumble (`gamepad.cpp`: `poll_ff`, `send_rumble`) | time of the last packet | at most one packet per `RUMBLE_MIN_INTERVAL` | the motors end at the level asked for last |
| Daemon (`daemon/main.cpp`, `Gamepad::open`, `hidraw.cpp`) | `g_running`, the blocked signals, the open `Gamepad` | open with handshake, `ppoll`, close, retry after `RETRY_INTERVAL` | no signal is slept over; test mode is turned off again; a lost device is let go of |
| Kernel driver (`driver/hid-flydigi.c`) | level and pending flag under a lock; two buffers, two URBs, one work item; what probe has acquired | probe, open, close, `ff_play`, `rumble_work`, URB completions, disconnect | the motors end at the level asked for last; nothing leaks, is freed twice or is freed in use; reports keep coming while it is open |
| Debug tool (`tools/debug.cpp`) | `g_running`, `g_test_mode`, `g_test_mode_changed`, `g_state` | keys; config, input and refresh threads | the controller is in the mode shown and is left out of test mode; leaving ends |
| Configuration (`config.cpp`, `keycodes.cpp`) | `Config`, fixed once loaded | `load`, then the devices opened for it | the devices suffice for every layer; only what is named twice is shared; moving `[mode_shift]` to `[layer]` changes nothing |
| Decoders (`protocol.hpp`, `hidraw.cpp`, `hid-flydigi.c`) | none | bytes to `GamepadState` | they agree with each other |

How they meet: `main()` calls `Gamepad::poll` when the hidraw descriptor is readable and
`Gamepad::poll_ff` when the uinput descriptor is; both run in its one thread, so reports and
force feedback never interleave inside the daemon. A game's upload or erase blocks that game in
the kernel until the daemon answers or the kernel gives the request up. The configuration is read once,
before the first connection; `needs_mouse` decides from it which virtual devices every `Gamepad` opens. A `Gamepad` object lives from a connection to its loss; all
the state of layers and pipeline is lost with it. The kernel driver and the debug tool are the
concurrent programs: process context, completions and a worker around one spinlock, and four threads
around atomics and a mutex.

What is hard here:

* state that is read once and used after it changed (`active` in the layer loop);
* a loop over a hash map that clears another map while walking;
* differences: whatever is sent must later be taken back, under suppression that comes and goes
  with the layers;
* a throttle that drops, and a retry that never happens;
* a request the kernel gave up, whose event is still queued and looks like the next one's;
* a ladder of error labels, and a disconnect that frees what four contexts work on;
* several tables for the same bits, in four decoders that ought to agree;
* signals, unplugging and kills between any two steps of a handshake;
* flags handed between threads without a common lock.

`PROJECT.json` lists the hazards line by line with the properties that watch them.

## Modules

| Module | Models | Uses |
|---|---|---|
| `LayerEngine` | one pass of `update_tap_hold` as one step, in closed form, and `get_active_layer`: the abstract specification of the layers | |
| `LayerLoop` | the same pass one loop iteration per step; implements `LayerEngine`, whose operators it extends and of which it has an instance with the variables mapped | `LayerEngine` |
| `Gamepad` | `Gamepad::poll` with `Uinput::emit` and `InputDevice`; its layers are an instance of `LayerEngine`, whose actions its own conjoin | `LayerEngine` |
| `Rumble` | `Uinput::poll_ff`, `Gamepad::send_rumble`, the queue of the kernel, games | |
| `RumbleDriver` | force feedback of `hid-flydigi.c`, while the device is bound and while it is taken down: the abstract specification of the driver's motors | |
| `Driver` | the whole of `hid-flydigi.c`: probe with its error labels, both URBs, open and close, disconnect; implements `RumbleDriver` | `RumbleDriver` |
| `Daemon` | `main()` and `Gamepad::open` with signals, the device and the service around them | |
| `DebugTool` | the threads of `vader5-debug` | |
| `Decoders` | the four decoders, as functions of one report | |
| `Config` | `Config::load`, the table of key names, the devices opened for what was loaded, and the codes sent to them | |
| `*Proofs` | theorems about the module they are named for (`LayerProofs`: `LayerEngine` and `LayerLoop`; `DriverProofs`: `RumbleDriver` too); `DebugTool` holds its own | |
| `MC*` | constants for TLC | |

Each abstraction is named in the head comment of its module. The ones that matter:

* **LayerEngine.** A button is its name. `press_time` becomes `elapsed`, the age of a pending
  press; `Tick` ages all of them together, and stops at `MaxElapsed`, which no timeout exceeds, so
  that an older press behaves alike. The hash map's order is `config.rank`, any injective ranking.
* **LayerLoop.** `todo` is what the range-for has not visited. `Turn(l)`, with one action per branch, is the
  loop body; the containers change under it. The refinement mapping shows the containers as they were
  when the walk began (`start`) until the walk ends, so a walk is one `Poll`.
* **Gamepad.** `pad` and `keys` are what a reader of the virtual devices sees: the sum of every
  event since they were created. Sticks and gyro are small numbers with 0 for the centre, triggers
  have three values because a trigger counts as a pressed button only past 128. Relative motion
  leaves no state on a device and is left out. Two remaps of the same code in one report fire in the order of a
  hash map: `Settle` allows each.
* **Rumble.** Strong and weak magnitude are one value; `queue` is what waits on the uinput
  descriptor, one event per read, and more may arrive while the loop of `poll_ff` reads. The kernel
  lets one request wait at a time and may give it up (`TimeOut`), but not between
  `UI_BEGIN_FF_UPLOAD` and `UI_END_FF_UPLOAD`, which are one call apart in the daemon. Its event
  stays queued, and, as every request of the one waiting has the same id, the daemon may carry out the next
  request at the event of the one given up. `uploaded`, `asked`, `late` and `lost` are auxiliary:
  they record what the games believe and why the last packet missed the controller, and no action
  of the code reads them.
* **RumbleDriver.** A step is what one context does between two points where another may
  run. `usb_submit_urb` refuses a URB in flight; the worker is never run by two CPUs at once, as
  the work queue guarantees. `stage` goes from unbound over bound to unbinding, inside which the
  steps of `flydigi_disconnect` are apart; `late` records work queued after `cancel_work_sync`.
  A packet the worker writes while the controller reads the one before may arrive as part of each:
  the motors are then `Torn`.
* **Driver.** `held` is what is allocated and `fields` the pointers that are not NULL, so that
  a double free is a field that is not held. `input_ff_create_memless` failing frees the OUT URB and its buffer
  and clears both pointers, as the code does. The content of a report is left to `Decoders`.
* **Decoders.** A byte of buttons is the set of its bits; one stick's Y axis stands for both and is a
  true 16-bit word, negated, cast and clamped as each decoder does it. X and the triggers are
  copied by all four.
* **Config.** A file is a partial function from paths to values. The numbers of a setting are left out, except for
  the table they make exist: a layer with `gyro.sensitivity` alone overrides the mode of the gyro.
  Key codes are those of the kernel's headers, so that shared and unregistered ones are real.
  An entry that is no string, or names no target, is left out. Writing the events of a report fails as a whole.
* **Daemon.** `pc` is the place in `main()` or, below it, in `Gamepad::open` and `send_cmd`.
  A packet is an answer or a report: `send_cmd` accepts anything that starts with `5a a5`, reports
  included. A write to a live descriptor may fail. The device may answer, ignore a command, stream, or vanish at any step.
* **DebugTool.** A step is one access to a shared variable or to the controller.

`PROJECT.json` maps each definition to the lines it stands for.

## Runs

Run TLC from this directory, for instance `tlc -config MCGamepad.cfg MCGamepad`.

### Runs that pass

| Run | Instance | Shows |
|---|---|---|
| `layers` | three layers; four tables mixing hold and toggle, triggers distinct, absent and shared; all six orders of the map; timeouts 0 to 2 | `ToggleExcludesHold`: no hold layer is activated under a toggled one, although both may change in one pass. `GivesWayOnlyOnRelease`: no preemption. `StaleOnlyWhenSkipped`: an entry outlives its press in one way only. `OrderDoesNotMatter`: with one button moving per report and distinct triggers the order of the hash map cannot be seen. `PendingResolves`: a press ends as a tap or an activation, or another layer takes over |
| `layer_loop` | three tables, six orders, timeouts 0 and 1 | `WalkIsOnePoll`: the loop implements `LayerEngine`. `TapsAgree`: and fires the taps the closed form names. `NothingLeftToDrop`: the branch at `gamepad.cpp:402` that drops a pending entry under a toggled layer is never reached |
| `pad` | two layers, one named like a button; nine kinds of configuration; every set of five buttons, axes one group at a time | `PadShowsReport`: the difference protocol neither loses nor repeats (the right stick where no gyro drives it). `DisabledStaysOffPad`, `UntouchedKeyFollowsButton` (buttons that no layer is named for and that trigger none), `ArrowKeysFollowDpad`: across changes of layer. `KeysStayRightInLayer`: keys can only go wrong in a report that changes the remaps in force. |
| `rumble` | two effects, magnitudes 255 (0 after the shift) and 65535, interval of two ticks, three queued events | `TableIsCurrent`: when its request returns a game may rely on the daemon's table, even after a request was given up and its event taken for that of the next. `MotorFollowsGames`: the motors end at the last request unless it was throttled, failed, or was carried out ahead of plays queued in front of it. `RequestsAnswered`: no game hangs |
| `driver` | three magnitudes, with and without an OUT endpoint; every failure of probe; a disconnect at every step of the rest | `FreedExactlyOnce`, `NothingInUseIsFreed`: the ladder of labels and `flydigi_disconnect`; the one exception is work that `ff_play` queues after `cancel_work_sync` (`hid-flydigi.c:369`). `ReportsFlowWhileOpen`: short and failed transfers do not end the stream, a refused resubmission does. `PendingIsQueued`: the retry in `flydigi_irq_out` has nothing to retry. `RestAtLevelAsked`: no interleaving loses a level, or leaves the motors at a mixture of two packets, but by a refused or failed packet. `DisconnectEnds`: nobody waits for whom it waits for |
| `daemon` | four init commands, as in the code; one drained packet, one retry, two buffered packets | `NeverSleepsOnSignal`, `SignalEndsDaemon`, `UnplugNoticed`, `FFAnswered`. `TestModeHasOwner`: a streaming device has a `Gamepad` that turns it off at every exit, unless a kill or a failed write of test mode left it so. `InitWasAnswered`: a `Gamepad` opens only after every command was answered, or the device was streaming already |
| `debug_tool` | complete: no bound | `ModeIsShown`, `ExitLeavesPlain`, `LeavingEnds`, `TestModeShowsExt` (the input thread may overwrite an extended report once) |
| `decoders` | every pair of bits of the button bytes, the ends of the stick, a report at and around each length tested | `TestModeShowsDaemonsView`: `vader5-debug` shows what the daemon works with, but at -32768, though its tables, that of the d-pad too, are copies. `PlainDecodersAgree`: `parse_report_24g` and the kernel driver agree but on HOME, three directions of the d-pad and -32768. `UpStaysUp`: a stick never turns back in what the daemon and the driver report |
| `config` | every file of at most two settings out of 86, in both emulations; three buttons, two held at once | `DevicesForEveryLayer`: the devices opened once have every code any layer sends, but the two gaps it names. `SharedOnlyWhereNamed`: two buttons have one code exactly where one key is named for both; the codes that `[remap]` decides under `emulate_elite` are left out, as code and documents disagree on them. `PadFollowsButtons`: over shared codes and writes that fail. `MigrationKeepsMeaning`: a `[mode_shift]` section and the `[layer]` it becomes load alike |

Every property has a mutant in `PROJECT.json`: an operator `Name_Bug` beside the operator `Name`
that changes it as a plausible mistake would, and under which TLC finds the property violated.
The type invariants are proved for every value of the constants and are not run again.

### Why the bounds are enough

* Layers: what a layer does depends on itself, on whether some layer is active, and on the layers
  before and after it that turn on. Three layers give one of each. A timeout of 2 has the tick before, the tick
  of, and the tick after it.
* Pad: two layers suffice for a change from one to the other and for a tap of one under the other;
  the proofs of the pad's share and of the layers hold for any number.
* Rumble: two effects distinguish a mixed-up id; three events give an upload between two plays, and
  the loop may read forever as new ones arrive, because the bound is on the queue, not on the run.
  A request given up, its event, and the next request's event fit in it.
* Driver: a magnitude of 0, one that becomes 0 in the shift to a byte, and the largest. The levels between
  behave as these do, and the proofs cover them.
* Daemon: one drained packet of two leaves a stale packet in front of an answer, which ten of
  sixty-four do as well.
* Decoders: no decoder relates more than two bits except on the d-pad, whose proof covers all
  sixteen patterns; every word and every set of bits is covered by the proofs.
* Config: `MaxSettings` is 2 besides `emulate_elite`: a conflict is between two settings, a setting and a
  default, or two sections of one name. `Held` are buttons of each kind (a face button, two extra
  ones), `MaxHeld` is 2 as a code is shared by two, and `HeldUnder` holds buttons only under
  tables that change the gamepad's codes.

### Runs that find the code at odds with its documents

| Run | What happens | What is said |
|---|---|---|
| `stuck_key` | A button remapped in a layer is held while the layer ends; its release finds no layer (`gamepad.cpp:738`) and the key stays down | `openspec/specs/remap-system/spec.md:55`: layer remaps stop |
| `rumble_stop` | A stop within `RUMBLE_MIN_INTERVAL` of a play is dropped (`gamepad.cpp:817`) and nothing sends it later | `openspec/changes/add-uinput-ff-support/specs/driver/spec.md:22` |
| `driver_stop` | A stop whose work runs while the URB flies: `rumble_pending` is cleared, the submission is refused, the completion has nothing to retry (`hid-flydigi.c:174`) | `openspec/changes/archive/2026-01-02-add-rumble-support/specs/driver/spec.md:12` |

More disagreements show in the models, without a run kept for each:

* Two hold triggers are pressed; the first layer activates; the second trigger is released while
  its layer is skipped (`gamepad.cpp:367`); the first is released: the second layer activates with its
  trigger up, and stays. `openspec/specs/remap-system/spec.md:55`: a layer becomes inactive when its trigger is
  released. `StaleOnlyWhenSkipped` says that there is no other way.
* The gyro replaces the right stick in the state sent but not in the state compared with
  (`gamepad.cpp:797`): a gyro value equal to the previous raw stick is never sent, against `spec.md:136`.
  `PadShowsReport` leaves the right stick of such configurations out.
* `active` is read once, so two layers can go live in the same pass (`gamepad.cpp:359`), against
  "only one layer is active at a time" (`spec.md:61`); which one applies is the hash map's order.
* A base remap of a layer's trigger stays in force (`gamepad.cpp:671` compares names of layers
  with names of buttons), against `openspec/specs/remap-system/spec.md:82` and the warning at
  `config.cpp:148`. `UntouchedKeyFollowsButton` leaves the triggers out, so no property asserts it.
* With `emulate_elite`, an extra button that `[remap]` maps to a key still sends that key code
  (`uinput.cpp:260`; `config.cpp:224` fills `ext_mappings` all the same), against `spec.md:14` and
  `docs/configuration.md:123` ("`[remap]` ignored"). `Disputed` holds these buttons and
  `SharedOnlyWhereNamed` says nothing of them: one press of M1 under `emulate_elite` and
  `M1 = "KEY_F13"` shows it.
* `Gamepad` ignores a `send_test_mode(false)` that fails (`gamepad.cpp:233`, `241`, `847`): the controller
  streams on with nobody to turn it off. `TestModeHasOwner` excepts just that and a kill.
* A trigger remapped in `[remap]` still moves the virtual trigger (`gamepad.cpp:663`), against
  `docs/configuration.md:128`.
* `needs_mouse` looks for scroll mode on the left stick only (`gamepad.cpp:107`), so a right stick in scroll
  mode has no device, against `docs/configuration.md:42`. `DevicesForEveryLayer` has it as an exception.
* `docs/protocol.md:71` lists the low bits of byte 11 as up, down, left, right; `DPAD_MAP`
  (`protocol.hpp:17`) decodes them as up, right, down, left.
* The warning at `config.cpp:261` asks to write `[layer.X]` for `[mode_shift.X]`. Renaming the section alone loses
  the trigger that defaults to X: `MigrationKeepsMeaning` holds with the trigger spelled out.

## Fairness

* `LayerEngine`: weak fairness of reports and of the clock. In test mode the controller streams
  reports whether or not anything moves.
* `Rumble`: weak fairness of the daemon's steps, which `Daemon` justifies (`FFAnswered`). The
  kernel need not give a request up.
* `Driver`: weak fairness of `ff_play` once it is called, of the worker, of the handling of a
  completion of either URB, and of `flydigi_disconnect`: a function that runs is scheduled, and a completion is
  delivered. Nothing is assumed of the device: that a URB completes at all is needed only under
  disconnect, which kills it.
* `Daemon`: weak fairness of `main()`, and strong fairness of an interrupted `ppoll`: Linux looks
  at pending signals only when nothing is ready, so the daemon ends if it now and then calls `ppoll` with nothing
  ready. `SignalEndsDaemon` states that premise. Nothing is assumed of the device, the games or the user.
* `DebugTool`: weak fairness of each thread; and strong fairness of the return of `screen.Loop`
  after `Exit`, which is queued behind finitely many keys. A thread that left by its `catch (...)` is
  done, which the joins accept.

## Proofs

`tlapm LayerProofs.tla` and so on. All theorems hold for every value of the constants that
satisfies the module's `ASSUME`.

| Theorem | Argument |
|---|---|
| `LayerProofs`: `TypeCorrect`, `ToggleExclusion`, `NoPreemption`, `GhostOnlyWhenSkipped` | `ToggleExcludesHold` is not inductive: it needs that entries of `tap_hold_states_` belong to hold layers and toggled layers to toggle layers (`KindsApart`). A pass that toggles a layer on while one hold layer activates is excluded since every hold layer comes before or after the one toggled, and loses its entry in both cases. The two action properties follow from the same invariant, with `ActiveLayerIsLive`, which needs that a ranked set has a first element (`FirstExists`, by well-foundedness, as the layers need not be finite) |
| `LayerProofs`: `OrderIsInvisible` | a hold layer's entry or tap depends on the order only through toggle layers that come before or after it, and one can toggle only if its own trigger moved (`LoneRelease`): then the hold layer's trigger did not, and its entry is the same on either side |
| `LayerProofs`: `LoopImplementsEngine`, `TapsAreTheSame`, `DropIsNeverNeeded` | the invariant is `WInv`: what was visited comes before what was not, and the containers are what the closed form makes of `start` for the layers visited so far (`Progress`). Each `Turn` extends that by its layer (`TurnProgress`), so the last one is a `Poll` and the others stutter. That the dropping branch never runs is read off `WInv`: toggling on has emptied the map for every layer still to come |
| `GamepadProofs`: `PadTracksReports`, `DisabledIsOff`, `PadTypes` | the invariant is `PadInv`: `PadShowsReport`, the types of what the last report left (`PadType`: what was injected is named by the configuration), and that the base remaps were suppressed in every report but the zeroed one (`BaseIsSuppressed`). The core is `ButtonsDiff`: taking away what is only in the old set and adding what is only in the new one gives the new set, through a renaming of codes that is one to one |
| `GamepadProofs`: `ArrowsFollowDpad`, `UntouchedKeys` | the invariant is `KeyInv`: `PadInv`, that `dpad_up_` and its like are the arrow keys that are down and ought to be (`ArrowInv`), and the property of untouched keys itself. The loops over the remaps settle each key by itself (`SettleKeeps`, `SettleMoves`), so a key that only one remap names is decided by that one, in whatever order the hash map is walked |
| `GamepadProofs`: `KeysKeptInLayer` | from `KeyInv`. Which remaps are in force is the same before and after the report, so a key that changes does so by a difference of the report, or by the arrow it is (`ArrowInv` ties `dpad_up_` and its like to the keyboard), and `KeysUncontested` says that no second source moves it |
| `RumbleProofs`: `TableStaysCurrent`, `RumbleTypes` | `Table`: the daemon's table is the games' but for the effect of the request that waits, and the request remembers what stood there before, which is what the games fall back to when the kernel gives it up. `Flow`: the queue and the magnitudes on their way keep their types |
| `RumbleProofs`: `MotorsFollow` | the invariant is `FInv`, which adds `Follow`: what the games asked for last is the meaning of the last play or stop in the queue; once that is read, `result`; once that is sent, the motors. It needs that no play of an effect is queued behind a request for it (`Orderly`), or the table would change its meaning |
| `DriverProofs`: `RetryIsRedundant`, `MotorsRestAtLevel`, `ReleaseIsQuiet` | `LevelOnItsWay`: when nobody is going to pick it up again, the level asked for has reached the worker's locals, the buffer, or the motors. `TakenDown`: what each step of `flydigi_disconnect` has made sure of |
| `DriverProofs`: `RumbleRefined` | each step of the driver is a step of `RumbleDriver` or leaves its variables alone |
| `DriverProofs`: `DriverTypes`, `LadderFreesAll`, `NothingFreedInUse`, `ReportsKeepFlowing` | `DInv`, on top of the above: `Ladder` says what probe holds at each label, and a bound driver; `NoRumbleWithoutOut` that without a URB nothing of the force feedback runs; `InputInv` that the input URB rests once it was killed |
| `DaemonProofs`: `NoSignalMissed`, `TestModeIsTurnedOff`, `DaemonTypes` | `SignalInv`: signals are blocked exactly in the inner loop, so one can be handled only outside it. `DeviceInv`: a streaming device has an open descriptor at a place from which every exit turns it off, or is one that a kill or a failed write left behind (`TestModeOffLeaves`: turning it off leaves no other). `TypeInv`: a counter is below its bound at the place that raises it |
| `DaemonProofs`: `OpenedAfterAnswers` | the invariant is `AnswerInv`, a count of packets: a device that does not stream sends nothing but answers, each command takes one out of the buffer, and what is still buffered was answered since. So the last command finds as many answers as commands |
| `DebugTool`: `ShownModeIsDeviceMode`, `ExitTurnsTestModeOff`, `DebugToolTypes` | `ModeInv`: what the config thread is about to send is the current mode unless a change is still on its way to it |
| `DecodersProofs`: `StatesFit`, `TestModeIsFaithful`, `PlainDecodersDiffer`, `DirectionKept` | no invariant but the type of a report: each follows from the tables, bit by bit (`DpadTablesAgree` for the two d-pad tables, all sixteen entries), and from four lemmas on casting and clamping a negated 16-bit word |
| `ConfigProofs`: `SharedByName`, `DevicesSuffice` | the invariant is `CfgInv`: what runs is `Load` of the file, and the devices were opened for it. `KeyTableInjective` (the blocks of the kernel's key codes do not overlap, and a name has one place in one block) makes equal codes equal names; `LayerAsks` follows each code a layer can send back to the test in `needs_mouse` or to what the gamepad registers |
| `ConfigProofs`: `PadFollows` | the invariant is `PadInv`. Of the buttons with one code that moved, the last in `EmitOrder` decides (`LastMover`), and if none moved the code stays as it was; a write that fails puts every button that moved among the `missed` |
| `ConfigProofs`: `MigrationIsSafe` | renaming is one to one on the paths that stay (`RenamedApart`), so each lookup `Load` makes in the migrated file finds what it finds in the old one, or what stands in for it: the table of a base section (`BaseTable`), a layer that was moved and one that was not (`SameLayer`), the set of their names (`NamesRead`) |

Assumptions: `ConfigAssumption` (an injective rank, activations "hold" or "toggle", timeouts within
the bound; `NoLayer` is no layer), `GamepadAssumption` (reports and targets are of the kinds the
decoder and `Config::load` produce), `DistinctCodes` (no two extra buttons of one configuration share a code, which `Config::load` does not
ensure: `Config` and its `PadFollowsButtons` show what happens otherwise), `LayerAssumption` (that
of `LayerEngine`, for the instance), `MagnitudesAssumption` in `Rumble` and in `RumbleDriver` (16-bit
magnitudes), `BoundsAssumption` and `NothingAssumption` (of `Rumble`: natural numbers, and markers that are no
magnitude and no request), `DaemonAssumption` (natural numbers, at least one command),
`DecodersAssumption` (16-bit words), and, of `Config`, `SettingsAssumption` (a setting stands at a path of names that are
not empty) and `HeldAssumption` (what is held are buttons). TLC evaluates each in the runs.

Only model-checked is liveness under fairness (`PendingResolves`, `RequestsAnswered`, `DisconnectEnds`,
`SignalEndsDaemon`, `UnplugNoticed`, `FFAnswered`, `LeavingEnds`, `TestModeShowsExt`), which this
prover does not do. Every safety property of a passing run is proved.

## Not modelled

* Gyro, mouse and scroll motion: float arithmetic with accumulators, no state that anything but
  relative events depends on.
* Of the configuration: the numbers of a setting, the syntax of the file, which toml++ parses, and
  `default_path`, which looks for files. `suppress_gamepad` is in `Gamepad`, where it matters.
* Of the kernel driver: `FF_RUMBLE` stays among the capabilities when `input_ff_create_memless`
  fails; suspend and resume, which it does not implement.
* Command line, device lookup in sysfs, rendering and interface detection in the debug tool.
* `mouse.cpp` (unused by the daemon), the manual test tools, scripts and service files (`Daemon`
  has a kill and a restart).

## Plan

Order of work, most important first; what is done is marked.

1. Layers as one step, then as the loop, with the refinement. *Done.*
2. Pipeline over the layers: pad, keys. *Done.*
3. Rumble in the daemon, with requests the kernel gives up, and in the driver. *Done.*
4. Daemon and connection. *Done.*
5. Debug tool threads. *Done.*
6. The whole driver: probe, input, disconnect, and the refinement of its force feedback. *Done.*
7. Decoders. *Done.*
8. Configuration, the devices opened for it, failing writes. *Done.*
9. Proofs of the properties of keys, and of the types of every proved module. *Done.*
10. Proofs of what else the runs check: `LayerLoop` implements `LayerEngine`, the order of the hash
    map, the handshake, the motors, the keys within a layer, the configuration. *Done.*
11. Motion accumulators over small integers: what is carried over a change of layer.
