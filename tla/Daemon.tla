--------------------------------- MODULE Daemon ---------------------------------
(* The life of vader5d (src/daemon/main.cpp) around one controller: main()     *)
(* opens it with Gamepad::open, which talks to it until it streams reports in  *)
(* test mode; waits in ppoll for reports, force feedback requests and          *)
(* signals; closes the Gamepad when the controller goes away or a signal       *)
(* arrives, and tries again or exits.  Around it the controller is unplugged   *)
(* and plugged in, signals arrive at any point of the program, and the process *)
(* is killed and started again.  What a report does is module Gamepad, what a  *)
(* force feedback request does is module Rumble.                               *)
EXTENDS Integers, Sequences

CONSTANTS
  Commands,    \* number of init commands: CMD_01, CMD_A1, CMD_02, CMD_04
  DrainReads,  \* packets drain_buffer reads at most
  Retries,     \* reads send_cmd attempts for an answer
  MaxPackets   \* bound: packets waiting in the hidraw buffer

ASSUME DaemonAssumption ==
  Commands \in Nat \ {0} /\ DrainReads \in Nat /\ Retries \in Nat /\ MaxPackets \in Nat

VARIABLES
  pc,          \* where main() is
  step,        \* init commands sent so far in this Gamepad::open
  retry,       \* local of send_cmd
  fd,          \* the hidraw descriptor: "none", "live", or "dead" (unplugged)
  packets,     \* packets waiting on it: "answer", "report"
  g_running,
  blocked,     \* SIGTERM and SIGINT are blocked by sigprocmask
  signal,      \* "none", "pending" while blocked, "handled"
  revents,     \* what ppoll returned: subset of {"in", "ff", "hup"}
  ff_request,  \* a game waits for its force feedback request to be answered
  device,      \* "gone", "plain", or "test": plugged in and streaming reports
  answered,    \* auxiliary: init commands the device answered in this open
  orphan       \* auxiliary: the device streams, left so by a kill or a failed write

loopVars == <<pc, step, retry, revents>>
signalVars == <<g_running, blocked, signal>>
deviceVars == <<device, answered, orphan>>
vars == <<loopVars, fd, packets, signalVars, ff_request, deviceVars>>

(* The places of main(), in the order of the source.                           *)
Opening == {"open", "drain", "send", "await", "test_mode", "create"}
Polling == {"block", "running?", "ppoll", "report", "ff", "hup?", "unblock", "close"}
Waiting == {"outer?", "sleep"}
Ended == {"exited", "killed"}

(* A virtual gamepad exists.                                                   *)
HasPad == pc \in Polling

Init ==
  /\ pc = "outer?" /\ step = 0 /\ retry = 0 /\ revents = {}
  /\ fd = "none" /\ packets = <<>>
  /\ g_running = TRUE /\ blocked = FALSE /\ signal = "none"
  /\ ff_request = FALSE
  /\ device \in {"gone", "plain"} /\ answered = 0 /\ orphan = FALSE

--------------------------------------------------------------------------------
(* Gamepad::open                                                               *)

Goto(from, to) == pc = from /\ pc' = to

(* open() returns an error: the descriptor is closed; main() sleeps.           *)
GiveUp == pc' = "sleep" /\ fd' = "none" /\ packets' = <<>>

(* A write to a dead descriptor fails, one to a live descriptor may.           *)

(* send_test_mode(hid, false), whose result nobody looks at: the second        *)
(* disjunct is a write that failed.                                            *)
TestModeOff ==
  /\ \/ fd = "live" /\ device' = "plain" /\ orphan' = FALSE
     \/ fd = "live" /\ orphan' = (device = "test") /\ UNCHANGED device
     \/ fd # "live" /\ UNCHANGED <<device, orphan>>
  /\ UNCHANGED answered

OpenHid ==
  /\ pc = "open"
  /\ IF device = "gone" THEN GiveUp /\ UNCHANGED <<step, answered>>
     ELSE /\ pc' = "drain" /\ fd' = "live" /\ packets' = <<>>
          /\ step' = 0 /\ answered' = 0
  /\ UNCHANGED <<retry, revents, signalVars, ff_request, device, orphan>>

Drain ==
  /\ Goto("drain", "send")
  /\ packets' = SubSeq(packets, DrainReads + 1, Len(packets))
  /\ UNCHANGED <<step, retry, revents, fd, signalVars, ff_request, deviceVars>>

SendCmd ==
  /\ pc = "send"
  /\ \/ /\ fd = "live"
        /\ pc' = "await" /\ step' = step + 1 /\ retry' = 0 /\ UNCHANGED <<fd, packets>>
     \/ GiveUp /\ UNCHANGED <<step, retry>>
  /\ UNCHANGED <<revents, signalVars, ff_request, deviceVars>>

AfterAnswer == IF step < Commands THEN "send" ELSE "test_mode"

(* Any packet that starts with 5a a5 is taken for the answer.                  *)
Answered ==
  /\ pc = "await" /\ packets # <<>>
  /\ pc' = AfterAnswer
  /\ packets' = Tail(packets)
  /\ UNCHANGED <<step, retry, revents, fd, signalVars, ff_request, deviceVars>>

Retry ==
  /\ pc = "await" /\ packets = <<>> /\ retry < Retries
  /\ retry' = retry + 1
  /\ UNCHANGED <<pc, step, revents, fd, packets, signalVars, ff_request, deviceVars>>

(* Mutant: ten reads without an answer count as success.                       *)
NoAnswer_Succeeds ==
  /\ pc = "await" /\ packets = <<>> /\ retry = Retries
  /\ pc' = AfterAnswer
  /\ UNCHANGED <<step, retry, revents, fd, packets, signalVars, ff_request, deviceVars>>

NoAnswer ==
  /\ pc = "await" /\ packets = <<>> /\ retry = Retries
  /\ GiveUp
  /\ UNCHANGED <<step, retry, revents, signalVars, ff_request, deviceVars>>

(* Test mode on.  A write that is reported to fail may have reached a device   *)
(* that is there all the same; open() gives up and leaves it so.               *)
TestModeOn ==
  /\ pc = "test_mode"
  /\ \/ /\ fd = "live" /\ pc' = "create"
        /\ device' = "test" /\ orphan' = FALSE
        /\ UNCHANGED <<fd, packets>>
     \/ /\ GiveUp
        /\ UNCHANGED device \/ (fd = "live" /\ device' = "test")
        /\ orphan' = (device' = "test")
  /\ UNCHANGED <<step, retry, revents, signalVars, ff_request, answered>>

(* The virtual devices are created, and the redundant input device is grabbed  *)
(* if that can be done.                                                        *)
CreatePad ==
  /\ Goto("create", "block")
  /\ UNCHANGED <<step, retry, revents, fd, packets, signalVars, ff_request, deviceVars>>

(* Mutant: test mode stays on when open() fails.                               *)
CreateFails_LeavesTestMode ==
  /\ pc = "create"
  /\ GiveUp
  /\ UNCHANGED <<step, retry, revents, signalVars, ff_request, deviceVars>>

(* Uinput::create or InputDevice::create fails.                                *)
CreateFails ==
  /\ pc = "create"
  /\ GiveUp
  /\ TestModeOff
  /\ UNCHANGED <<step, retry, revents, signalVars, ff_request>>

--------------------------------------------------------------------------------
(* main()                                                                      *)

(* while (g_running), the outer and the inner loop.                            *)
OuterCheck ==
  /\ pc = "outer?"
  /\ pc' = IF g_running THEN "open" ELSE "exited"
  /\ UNCHANGED <<step, retry, revents, fd, packets, signalVars, ff_request, deviceVars>>

(* RETRY_INTERVAL is over.                                                     *)
Wake ==
  /\ Goto("sleep", "outer?")
  /\ UNCHANGED <<step, retry, revents, fd, packets, signalVars, ff_request, deviceVars>>

(* Mutant: signals are not blocked while the daemon works.                     *)
BlockSignals_Not ==
  /\ Goto("block", "running?")
  /\ UNCHANGED <<step, retry, revents, fd, packets, signalVars, ff_request, deviceVars>>

BlockSignals ==
  /\ Goto("block", "running?")
  /\ blocked' = TRUE
  /\ UNCHANGED <<step, retry, revents, fd, packets, g_running, signal, ff_request,
                 deviceVars>>

InnerCheck ==
  /\ pc = "running?"
  /\ pc' = IF g_running THEN "ppoll" ELSE "unblock"
  /\ UNCHANGED <<step, retry, revents, fd, packets, signalVars, ff_request, deviceVars>>

Ready == {e \in {"in", "ff", "hup"} :
            \/ e = "in" /\ packets # <<>>
            \/ e = "ff" /\ ff_request
            \/ e = "hup" /\ fd = "dead"}

(* ppoll returns what is ready, without looking at pending signals.            *)
PollReady ==
  /\ Goto("ppoll", "report")
  /\ Ready # {}
  /\ revents' = Ready
  /\ UNCHANGED <<step, retry, fd, packets, signalVars, ff_request, deviceVars>>

(* EINTR: with nothing ready, a pending signal is delivered, because ppoll     *)
(* waits with an empty mask.                                                   *)
PollInterrupted ==
  /\ Goto("ppoll", "running?")
  /\ Ready = {} /\ signal = "pending"
  /\ signal' = "handled" /\ g_running' = FALSE
  /\ UNCHANGED <<step, retry, revents, fd, packets, blocked, ff_request, deviceVars>>

(* Gamepad::poll, if there is a report.  An error of the virtual devices is    *)
(* logged, no more; a read of a dead descriptor may fail and ends the loop.    *)
(* (EAGAIN cannot be: nobody else reads this descriptor.)                      *)
ReadReport ==
  /\ pc = "report"
  /\ IF "in" \notin revents THEN pc' = "ff" /\ UNCHANGED packets
     ELSE \/ pc' = "ff" /\ packets' = Tail(packets)
          \/ fd = "dead" /\ pc' = "unblock" /\ UNCHANGED packets
  /\ UNCHANGED <<step, retry, revents, fd, signalVars, ff_request, deviceVars>>

(* Mutant: force feedback waits for a pass without a report.                   *)
AnswerFF_Else ==
  /\ Goto("ff", "hup?")
  /\ ff_request' = (ff_request /\ ("ff" \notin revents \/ "in" \in revents))
  /\ UNCHANGED <<step, retry, revents, fd, packets, signalVars, deviceVars>>

AnswerFF ==
  /\ Goto("ff", "hup?")
  /\ ff_request' = (ff_request /\ "ff" \notin revents)
  /\ UNCHANGED <<step, retry, revents, fd, packets, signalVars, deviceVars>>

(* Mutant: POLLHUP is not looked at.                                           *)
CheckHup_Not ==
  /\ Goto("hup?", "running?")
  /\ UNCHANGED <<step, retry, revents, fd, packets, signalVars, ff_request, deviceVars>>

CheckHup ==
  /\ pc = "hup?"
  /\ pc' = IF "hup" \in revents THEN "unblock" ELSE "running?"
  /\ UNCHANGED <<step, retry, revents, fd, packets, signalVars, ff_request, deviceVars>>

(* The old mask returns, and with it a signal that was pending.                *)
Unblock ==
  /\ Goto("unblock", "close")
  /\ blocked' = FALSE
  /\ IF signal = "pending" THEN signal' = "handled" /\ g_running' = FALSE
                           ELSE UNCHANGED <<signal, g_running>>
  /\ UNCHANGED <<step, retry, revents, fd, packets, ff_request, deviceVars>>

(* ~Gamepad: test mode off, then the virtual devices and the descriptor go. A  *)
(* request the daemon has not answered fails with the virtual device.          *)
Close ==
  /\ Goto("close", "outer?")
  /\ TestModeOff
  /\ fd' = "none" /\ packets' = <<>>
  /\ ff_request' = FALSE
  /\ revents' = {}
  /\ UNCHANGED <<step, retry, signalVars>>

--------------------------------------------------------------------------------
(* Around the daemon.                                                          *)

(* The device answers each command it has got, once, and before main() opens   *)
(* it again (RETRY_INTERVAL later).                                            *)
DeviceAnswers ==
  /\ fd = "live" /\ answered < step /\ Len(packets) < MaxPackets
  /\ answered' = answered + 1
  /\ packets' = Append(packets, "answer")
  /\ UNCHANGED <<loopVars, fd, signalVars, ff_request, device, orphan>>

DeviceReports ==
  /\ fd = "live" /\ device = "test" /\ Len(packets) < MaxPackets
  /\ packets' = Append(packets, "report")
  /\ UNCHANGED <<loopVars, fd, signalVars, ff_request, deviceVars>>

Unplug ==
  /\ device # "gone"
  /\ device' = "gone" /\ orphan' = FALSE
  /\ fd' = IF fd = "live" THEN "dead" ELSE fd
  /\ UNCHANGED <<loopVars, packets, signalVars, ff_request, answered>>

(* The old descriptor stays dead.                                              *)
Plug ==
  /\ device = "gone"
  /\ device' = "plain"
  /\ UNCHANGED <<loopVars, fd, packets, signalVars, ff_request, answered, orphan>>

GameRequests ==
  /\ HasPad /\ ~ff_request
  /\ ff_request' = TRUE
  /\ UNCHANGED <<loopVars, fd, packets, signalVars, deviceVars>>

(* SIGTERM or SIGINT, once in the life of a process (bound).  Unblocked, the   *)
(* handler runs at once.                                                       *)
Signal ==
  /\ pc \notin Ended /\ signal = "none"
  /\ IF blocked THEN signal' = "pending" /\ UNCHANGED g_running
                ELSE signal' = "handled" /\ g_running' = FALSE
  /\ UNCHANGED <<loopVars, fd, packets, blocked, ff_request, deviceVars>>

(* SIGKILL, or a crash: the kernel closes what the process had open; nobody    *)
(* turns test mode off.                                                        *)
Kill ==
  /\ pc \notin Ended
  /\ pc' = "killed"
  /\ fd' = "none" /\ packets' = <<>> /\ ff_request' = FALSE /\ revents' = {}
  /\ orphan' = (device = "test")
  /\ UNCHANGED <<step, retry, signalVars, device, answered>>

(* The service starts the daemon again.                                        *)
Start ==
  /\ pc \in Ended
  /\ pc' = "outer?" /\ step' = 0 /\ retry' = 0
  /\ g_running' = TRUE /\ blocked' = FALSE /\ signal' = "none"
  /\ UNCHANGED <<revents, fd, packets, ff_request, deviceVars>>

Main ==
  \/ OuterCheck \/ Wake
  \/ OpenHid \/ Drain \/ SendCmd \/ Answered \/ Retry \/ NoAnswer
  \/ TestModeOn \/ CreatePad \/ CreateFails
  \/ BlockSignals \/ InnerCheck \/ PollReady \/ PollInterrupted
  \/ ReadReport \/ AnswerFF \/ CheckHup \/ Unblock \/ Close

Around ==
  \/ DeviceAnswers \/ DeviceReports \/ Unplug \/ Plug
  \/ GameRequests \/ Signal \/ Kill \/ Start

Next == Main \/ Around

Spec == Init /\ [][Next]_vars

(* The scheduler lets the daemon run, and a ppoll that finds nothing ready     *)
(* again and again while a signal is pending is interrupted.  Nothing is       *)
(* assumed of the device, the games, or the user.                              *)
FairSpec == Spec /\ WF_vars(Main) /\ SF_vars(PollInterrupted)

--------------------------------------------------------------------------------
Buffers == {s \in Seq({"answer", "report"}) : Len(s) <= MaxPackets}

TypeOK ==
  /\ pc \in Opening \cup Polling \cup Waiting \cup Ended
  /\ step \in 0 .. Commands /\ retry \in 0 .. Retries
  /\ answered \in 0 .. Commands
  /\ fd \in {"none", "live", "dead"}
  /\ packets \in Buffers
  /\ g_running \in BOOLEAN /\ blocked \in BOOLEAN
  /\ ff_request \in BOOLEAN /\ orphan \in BOOLEAN
  /\ signal \in {"none", "pending", "handled"}
  /\ revents \subseteq {"in", "ff", "hup"}
  /\ device \in {"gone", "plain", "test"}

(* The daemon never goes to sleep in ppoll after its signal has been handled:  *)
(* wherever between the check of g_running and the call it arrives, it wakes   *)
(* the daemon.  (src/daemon/main.cpp:80, "a race where we may miss a signal".) *)
NeverSleepsOnSignal == pc = "ppoll" => g_running

(* A device streams only for a Gamepad that will write test mode off, whatever *)
(* else failed while opening it: no way out forgets it.  Two things leave it   *)
(* streaming, a kill, and a write of test mode that fails, which Gamepad::open *)
(* (src/gamepad.cpp:227, 233, 241) and ~Gamepad (847) do not answer.           *)
TestModeHasOwner ==
  device = "test" /\ ~orphan => fd = "live" /\ pc \in {"create"} \cup Polling

(* A Gamepad is opened only after the device answered every init command,      *)
(* unless it was streaming already, when reports pass for answers.             *)
InitWasAnswered ==
  [][TestModeOn /\ pc' = "create" => answered = Commands \/ device = "test"]_vars

(* A signal ends the daemon, provided ppoll, if it is called for ever, finds   *)
(* nothing ready now and then: reports that always wait for it would keep the  *)
(* signal pending.                                                             *)
SignalEndsDaemon ==
  <>[](pc # "ppoll") \/ []<>(pc = "ppoll" /\ Ready = {})
    => (signal # "none" ~> pc \in Ended)

(* An unplugged device is let go of, whatever is still buffered, and whether   *)
(* or not it has been plugged in again.                                        *)
UnplugNoticed == fd = "dead" ~> fd # "dead"

(* A game that uploads or erases an effect gets an answer however many reports *)
(* arrive.                                                                     *)
FFAnswered == ff_request ~> ~ff_request
================================================================================
