------------------------------- MODULE DebugTool -------------------------------
(* vader5-debug (src/tools/debug.cpp): four threads that share g_running,      *)
(* g_test_mode, g_test_mode_changed and g_state.  The user interface turns     *)
(* test mode on and off; the config thread tells the controller and reads its  *)
(* extended reports; the input thread reads the plain ones; the refresh thread *)
(* asks for redrawing.  One step is one access to a shared variable or to the  *)
(* controller.                                                                 *)
EXTENDS Integers, TLAPS

VARIABLES
  g_running,
  g_test_mode,
  g_test_mode_changed,
  source,    \* where g_state comes from: "none", "plain" or "ext"
  device,    \* the controller: "plain", or "test" (streams extended reports)
  ui,        \* main(): "loop" (screen.Loop), "toggling", "returned", the joins, "exited"
  leaving,   \* screen.Exit() was called
  config,    \* config_thread; "absent" without a config interface
  enable,    \* its argument to send_test_mode
  input,     \* input_thread
  refresh,   \* the refresh thread
  told,      \* auxiliary: the fate of the last test mode command
  threw      \* auxiliary: a thread left by its catch (...)

uiVars == <<ui, leaving>>
configVars == <<config, enable, told, device>>
vars == <<g_running, g_test_mode, g_test_mode_changed, source, uiVars, configVars,
          input, refresh, threw>>

Init ==
  /\ g_running = TRUE /\ g_test_mode = FALSE /\ g_test_mode_changed = FALSE
  /\ source = "none" /\ threw = FALSE
  /\ device \in {"plain", "test"}
  /\ ui = "loop" /\ leaving = FALSE
  /\ config \in {"init", "absent"} /\ enable = FALSE /\ told = "nothing"
  /\ input = "loop" /\ refresh = "loop"

--------------------------------------------------------------------------------
(* main(): the handler of keys, and the end.  Only this thread writes          *)
(* g_test_mode, so its compare-and-swap succeeds.                              *)

PressT ==
  /\ ui = "loop"
  /\ g_test_mode' = ~g_test_mode
  /\ ui' = "toggling"
  /\ UNCHANGED <<g_running, g_test_mode_changed, source, leaving, configVars, input,
                 refresh, threw>>

FlagChange ==
  /\ ui = "toggling"
  /\ g_test_mode_changed' = TRUE
  /\ ui' = "loop"
  /\ UNCHANGED <<g_running, g_test_mode, source, leaving, configVars, input, refresh,
                 threw>>

PressQ ==
  /\ ui = "loop"
  /\ g_running' = FALSE
  /\ leaving' = TRUE
  /\ UNCHANGED <<g_test_mode, g_test_mode_changed, source, ui, configVars, input,
                 refresh, threw>>

(* screen.Loop returns after Exit, or because ftxui has caught a signal; the   *)
(* keys in front of it in its queue have been handled.                         *)
LoopReturns ==
  /\ ui = "loop"
  /\ ui' = "returned"
  /\ UNCHANGED <<g_running, g_test_mode, g_test_mode_changed, source, leaving,
                 configVars, input, refresh, threw>>

StopThreads ==
  /\ ui = "returned"
  /\ g_running' = FALSE
  /\ ui' = "join refresh"
  /\ UNCHANGED <<g_test_mode, g_test_mode_changed, source, leaving, configVars, input,
                 refresh, threw>>

Join(thread, from, to) ==
  /\ ui = from /\ thread \in {"done", "absent"}
  /\ ui' = to
  /\ UNCHANGED <<g_running, g_test_mode, g_test_mode_changed, source, leaving,
                 configVars, input, refresh, threw>>

JoinThreads ==
  \/ Join(refresh, "join refresh", "join input")
  \/ Join(input, "join input", "join config")
  \/ Join(config, "join config", "exited")

--------------------------------------------------------------------------------
(* config_thread                                                               *)

ConfigGoto(from, to) ==
  /\ config = from /\ config' = to
  /\ UNCHANGED <<g_running, g_test_mode, source, uiVars, input, refresh, threw>>

(* send_init_sequence: nobody looks at its outcome.                            *)
Handshake ==
  /\ ConfigGoto("init", "running?")
  /\ UNCHANGED <<g_test_mode_changed, enable, told, device>>

CheckRunning ==
  /\ ConfigGoto("running?", IF g_running THEN "changed?" ELSE "off")
  /\ UNCHANGED <<g_test_mode_changed, enable, told, device>>

(* g_test_mode_changed.exchange(false)                                         *)
TakeChange ==
  /\ ConfigGoto("changed?", IF g_test_mode_changed THEN "load" ELSE "test?")
  /\ g_test_mode_changed' = FALSE
  /\ UNCHANGED <<enable, told, device>>

LoadMode ==
  /\ ConfigGoto("load", "send")
  /\ enable' = g_test_mode
  /\ UNCHANGED <<g_test_mode_changed, told, device>>

(* send_test_mode: the write may fail, which is only logged.                   *)
Tell(mode) ==
  \/ device' = mode /\ told' = "ok"
  \/ told' = "failed" /\ UNCHANGED device

(* Mutant: the flag is cleared once the command has been sent, with any change *)
(* made meanwhile.                                                             *)
SendMode_ClearsFlag ==
  /\ ConfigGoto("send", "test?")
  /\ Tell(IF enable THEN "test" ELSE "plain")
  /\ g_test_mode_changed' = FALSE
  /\ UNCHANGED enable

SendMode ==
  /\ ConfigGoto("send", "test?")
  /\ Tell(IF enable THEN "test" ELSE "plain")
  /\ UNCHANGED <<g_test_mode_changed, enable>>

(* Outside test mode the thread sleeps before it starts over.                  *)
CheckTestMode ==
  /\ ConfigGoto("test?", IF g_test_mode THEN "read" ELSE "running?")
  /\ UNCHANGED <<g_test_mode_changed, enable, told, device>>

(* Nothing to read, or an extended report, which another program may have      *)
(* asked for.                                                                  *)
ReadExt ==
  /\ \/ ConfigGoto("read", "running?")
     \/ ConfigGoto("read", "store")
  /\ UNCHANGED <<g_test_mode_changed, enable, told, device>>

(* parse_ext_report: g_state, then the extended buttons and the motion data.   *)
StoreExt ==
  /\ config = "store"
  /\ config' = "running?"
  /\ source' = "ext"
  /\ UNCHANGED <<g_running, g_test_mode, g_test_mode_changed, uiVars, enable, told,
                 device, input, refresh, threw>>

(* Mutant: test mode is turned off only if the user left it on.                *)
TurnOff_IfOn ==
  /\ ConfigGoto("off", "done")
  /\ IF g_test_mode THEN Tell("plain") ELSE UNCHANGED <<told, device>>
  /\ UNCHANGED <<g_test_mode_changed, enable>>

TurnOff ==
  /\ ConfigGoto("off", "done")
  /\ Tell("plain")
  /\ UNCHANGED <<g_test_mode_changed, enable>>

(* catch (...), around the whole thread: logging allocates memory.             *)
ConfigThrows ==
  /\ config \notin {"absent", "done"}
  /\ config' = "done"
  /\ g_running' = FALSE
  /\ threw' = TRUE
  /\ UNCHANGED <<g_test_mode, g_test_mode_changed, source, uiVars, enable, told,
                 device, input, refresh>>

ConfigStep ==
  \/ Handshake \/ CheckRunning \/ TakeChange \/ LoadMode \/ SendMode
  \/ CheckTestMode \/ ReadExt \/ StoreExt \/ TurnOff

--------------------------------------------------------------------------------
(* input_thread and the refresh thread                                         *)

InputGoto(from, to) ==
  /\ input = from /\ input' = to
  /\ UNCHANGED <<g_running, g_test_mode, g_test_mode_changed, uiVars, configVars,
                 refresh, threw>>

InputLoop ==
  /\ InputGoto("loop", IF g_running THEN "test?" ELSE "done")
  /\ UNCHANGED source

(* Mutant: plain reports are shown in test mode too.                           *)
InputCheck_AnyMode ==
  /\ InputGoto("test?", "store") \/ InputGoto("test?", "loop")
  /\ UNCHANGED source

(* A report, if there is one, was read before g_test_mode is.                  *)
InputCheck ==
  /\ \/ ~g_test_mode /\ InputGoto("test?", "store")
     \/ InputGoto("test?", "loop")
  /\ UNCHANGED source

InputStore ==
  /\ InputGoto("store", "loop")
  /\ source' = "plain"

InputThrows ==
  /\ input = "store"
  /\ input' = "done"
  /\ g_running' = FALSE
  /\ threw' = TRUE
  /\ UNCHANGED <<g_test_mode, g_test_mode_changed, source, uiVars, configVars, refresh>>

(* Mutant: the refresh thread does not look at g_running.                      *)
Refresh_ForEver ==
  /\ refresh \in {"loop", "post"}
  /\ refresh' = IF refresh = "post" THEN "loop" ELSE "post"
  /\ UNCHANGED <<g_running, g_test_mode, g_test_mode_changed, source, uiVars,
                 configVars, input, threw>>

Refresh ==
  /\ refresh \in {"loop", "post"}
  /\ refresh' = IF refresh = "post" THEN "loop"
                ELSE IF g_running THEN "post" ELSE "done"
  /\ UNCHANGED <<g_running, g_test_mode, g_test_mode_changed, source, uiVars,
                 configVars, input, threw>>

InputStep == InputLoop \/ InputCheck \/ InputStore

--------------------------------------------------------------------------------
(* After the joins main() returns.                                             *)
Exited == ui = "exited" /\ UNCHANGED vars

Next ==
  \/ PressT \/ FlagChange \/ PressQ \/ LoopReturns \/ StopThreads \/ JoinThreads
  \/ ConfigStep \/ ConfigThrows
  \/ InputStep \/ InputThrows
  \/ Refresh
  \/ Exited

Spec == Init /\ [][Next]_vars

(* Every thread is scheduled, and screen.Loop returns after Exit, once it has  *)
(* handled the keys that were in front.                                        *)
FairSpec ==
  /\ Spec
  /\ WF_vars(FlagChange) /\ SF_vars(leaving /\ LoopReturns)
  /\ WF_vars(StopThreads \/ JoinThreads)
  /\ WF_vars(ConfigStep) /\ WF_vars(InputStep) /\ WF_vars(Refresh)

--------------------------------------------------------------------------------
TypeOK ==
  /\ {g_running, g_test_mode, g_test_mode_changed, leaving, enable, threw}
       \subseteq BOOLEAN
  /\ source \in {"none", "plain", "ext"}
  /\ device \in {"plain", "test"}
  /\ ui \in {"loop", "toggling", "returned", "join refresh", "join input",
             "join config", "exited"}
  /\ config \in {"absent", "init", "running?", "changed?", "load", "send", "test?",
                 "read", "store", "off", "done"}
  /\ input \in {"loop", "test?", "store", "done"}
  /\ refresh \in {"loop", "post", "done"}
  /\ told \in {"nothing", "ok", "failed"}

(* However the keys and the config thread interleave, once no change waits the *)
(* controller is in the mode the user sees, if the last command reached it.    *)
ModeIsShown ==
  /\ config \in {"running?", "changed?", "test?", "read", "store"}
  /\ ~g_test_mode_changed /\ ui # "toggling" /\ told = "ok"
  => device = IF g_test_mode THEN "test" ELSE "plain"

(* Whenever the tool exits, even right after a toggle it had no time to act    *)
(* on, the controller is left out of test mode, unless the last command was    *)
(* lost or an exception cut the thread short.                                  *)
ExitLeavesPlain ==
  ui = "exited" /\ config = "done" /\ ~threw /\ told # "failed" => device = "plain"

(* Leaving ends the tool: every join returns.                                  *)
LeavingEnds == leaving ~> ui = "exited"

(* In test mode the input thread may overwrite an extended report once, with   *)
(* one it had accepted before; then what is shown stays extended.              *)
TestModeShowsExt ==
  <>[]g_test_mode /\ []<>(config = "store") => <>[](source = "ext")

--------------------------------------------------------------------------------
(* Theorems: the threads in any order, for ever.                               *)

(* No change of test mode is on its way to the config thread.                  *)
Settled == ~g_test_mode_changed /\ ui # "toggling"

ModeInv ==
  /\ ModeIsShown
  /\ config = "send" /\ Settled => enable = g_test_mode
  /\ config = "init" => told = "nothing"
  /\ config = "done" /\ ~threw /\ told # "failed" => device = "plain"

(* Nothing has been asked of the controller yet.                               *)
LEMMA InitModeInv == Init => ModeInv
  BY DEF Init, ModeInv, ModeIsShown, Settled

(* The user interface, its toggles and its joins.                              *)
LEMMA UiKeeps ==
  ASSUME ModeInv,
         PressT \/ FlagChange \/ PressQ \/ LoopReturns \/ StopThreads \/ JoinThreads
  PROVE  ModeInv'
<1> USE DEF ModeInv, ModeIsShown, Settled, configVars
<1>1. CASE PressT
  BY <1>1 DEF PressT
<1>2. CASE FlagChange
  BY <1>2 DEF FlagChange
<1>3. CASE PressQ
  BY <1>3 DEF PressQ
<1>4. CASE LoopReturns
  BY <1>4 DEF LoopReturns
<1>5. CASE StopThreads
  BY <1>5 DEF StopThreads
<1>6. CASE JoinThreads
  <2>1. ui # "toggling"
    BY <1>6 DEF JoinThreads, Join
  <2>2. UNCHANGED <<g_test_mode, g_test_mode_changed, config, enable, told, device,
                    threw>>
    BY <1>6 DEF JoinThreads, Join
  <2> QED BY <2>1, <2>2
<1> QED BY <1>1, <1>2, <1>3, <1>4, <1>5, <1>6

(* The config thread.                                                          *)
LEMMA ConfigKeeps == ModeInv /\ (ConfigStep \/ ConfigThrows) => ModeInv'
<1> SUFFICES ASSUME ModeInv, ConfigStep \/ ConfigThrows PROVE ModeInv'
  OBVIOUS
<1> USE DEF ModeInv, ModeIsShown, Settled, ConfigGoto, uiVars
<1>1. CASE Handshake
  BY <1>1 DEF Handshake
<1>2. CASE CheckRunning
  BY <1>2 DEF CheckRunning
<1>3. CASE TakeChange
  BY <1>3 DEF TakeChange
<1>4. CASE LoadMode
  BY <1>4 DEF LoadMode
<1>5. CASE SendMode
  BY <1>5 DEF SendMode, Tell
<1>6. CASE CheckTestMode
  BY <1>6 DEF CheckTestMode
<1>7. CASE ReadExt
  BY <1>7 DEF ReadExt
<1>8. CASE StoreExt
  BY <1>8 DEF StoreExt
<1>9. CASE TurnOff
  BY <1>9 DEF TurnOff, Tell
<1>10. CASE ConfigThrows
  BY <1>10 DEF ConfigThrows
<1> QED BY <1>1, <1>2, <1>3, <1>4, <1>5, <1>6, <1>7, <1>8, <1>9, <1>10 DEF ConfigStep

(* The input and the refresh threads.                                          *)
LEMMA OthersKeep == ModeInv /\ (InputStep \/ InputThrows \/ Refresh) => ModeInv'
<1> SUFFICES ASSUME ModeInv, InputStep \/ InputThrows \/ Refresh PROVE ModeInv'
  OBVIOUS
<1> USE DEF ModeInv, ModeIsShown, Settled, uiVars, configVars
<1>1. CASE InputStep
  BY <1>1 DEF InputStep, InputLoop, InputCheck, InputStore, InputGoto
<1>2. CASE InputThrows
  BY <1>2 DEF InputThrows
<1>3. CASE Refresh
  BY <1>3 DEF Refresh
<1> QED BY <1>1, <1>2, <1>3

LEMMA Inductive == Spec => []ModeInv
<1>1. ASSUME ModeInv, UNCHANGED vars PROVE ModeInv'
  <2>1. UNCHANGED <<g_running, g_test_mode, g_test_mode_changed, source, input,
                    refresh, threw, uiVars, configVars>>
    BY <1>1 DEF vars
  <2>2. UNCHANGED <<ui, leaving, config, enable, told, device>>
    BY <2>1 DEF uiVars, configVars
  <2> QED BY <1>1, <2>1, <2>2 DEF ModeInv, ModeIsShown, Settled
<1>2. ModeInv /\ [Next]_vars => ModeInv'
  BY <1>1, UiKeeps, ConfigKeeps, OthersKeep DEF Next, Exited
<1> QED BY InitModeInv, <1>2, PTL DEF Spec

(* With no change of mode on its way the controller is in the mode shown.      *)
THEOREM ShownModeIsDeviceMode == Spec => []ModeIsShown
<1>1. ModeInv => ModeIsShown
  BY DEF ModeInv
<1> QED BY <1>1, Inductive, PTL

(* A tool that ends by itself leaves the controller out of test mode.          *)
THEOREM ExitTurnsTestModeOff == Spec => []ExitLeavesPlain
<1>1. ModeInv => ExitLeavesPlain
  BY DEF ModeInv, ExitLeavesPlain
<1> QED BY <1>1, Inductive, PTL

--------------------------------------------------------------------------------
(* The threads keep to their places and the flags to their types.              *)
LEMMA NextTypeOK == TypeOK /\ [Next]_vars => TypeOK'
<1> SUFFICES ASSUME TypeOK, [Next]_vars PROVE TypeOK'
  OBVIOUS
<1> USE DEF TypeOK, uiVars, configVars
<1>1. CASE PressT \/ FlagChange \/ PressQ \/ LoopReturns
  BY <1>1 DEF PressT, FlagChange, PressQ, LoopReturns
<1>2. CASE StopThreads \/ JoinThreads
  BY <1>2 DEF StopThreads, JoinThreads, Join
<1>3. CASE ConfigStep
  BY <1>3 DEF ConfigStep, ConfigGoto, Handshake, CheckRunning, TakeChange, LoadMode,
     SendMode, CheckTestMode, ReadExt, StoreExt, TurnOff, Tell
<1>4. CASE ConfigThrows \/ InputThrows
  BY <1>4 DEF ConfigThrows, InputThrows
<1>5. CASE InputStep
  BY <1>5 DEF InputStep, InputLoop, InputCheck, InputStore, InputGoto
<1>6. CASE Refresh \/ Exited \/ UNCHANGED vars
  BY <1>6 DEF Refresh, Exited, vars
<1> QED BY <1>1, <1>2, <1>3, <1>4, <1>5, <1>6 DEF Next

THEOREM DebugToolTypes == Spec => []TypeOK
<1>1. Init => TypeOK
  BY DEF Init, TypeOK
<1> QED BY <1>1, NextTypeOK, PTL DEF Spec
================================================================================
