----------------------------- MODULE DaemonProofs -----------------------------
(* Theorems about Daemon, for any number of commands, retries and packets.     *)
EXTENDS Daemon, SequenceTheorems, TLAPS

(* Where signals are blocked: from sigprocmask to sigprocmask.                 *)
Blocking == Polling \ {"block", "close"}

(* A signal is handled exactly when it has stopped g_running; while the        *)
(* daemon works in its inner loop it can only be pending.                      *)
SignalInv ==
  /\ signal \in {"none", "pending", "handled"}
  /\ g_running <=> signal # "handled"
  /\ pc \in Blocking => blocked
  /\ pc \notin Blocking \cup Ended => ~blocked /\ signal # "pending"
  /\ NeverSleepsOnSignal

LEMMA InitSignalInv == Init => SignalInv
  BY DEF Init, SignalInv, NeverSleepsOnSignal, Blocking, Polling, Ended

LEMMA NextSignalInv == SignalInv /\ [Next]_vars => SignalInv'
<1> SUFFICES ASSUME SignalInv, [Next]_vars PROVE SignalInv'
  OBVIOUS
<1> USE DEF SignalInv, NeverSleepsOnSignal, Blocking, Polling, Ended, signalVars
<1>1. CASE OuterCheck \/ Wake
  BY <1>1 DEF OuterCheck, Wake, Goto
<1>2. CASE OpenHid \/ Drain \/ SendCmd \/ TestModeOn
  BY <1>2 DEF OpenHid, Drain, SendCmd, TestModeOn, Goto, GiveUp
<1>3. CASE Answered \/ Retry \/ NoAnswer
  BY <1>3 DEF Answered, AfterAnswer, Retry, NoAnswer, GiveUp
<1>4. CASE CreatePad \/ CreateFails
  BY <1>4 DEF CreatePad, CreateFails, Goto, GiveUp
<1>5. CASE BlockSignals \/ InnerCheck
  BY <1>5 DEF BlockSignals, InnerCheck, Goto
<1>6. CASE PollReady \/ PollInterrupted
  BY <1>6 DEF PollReady, PollInterrupted, Goto
<1>7. CASE ReadReport \/ AnswerFF \/ CheckHup
  BY <1>7 DEF ReadReport, AnswerFF, CheckHup, Goto
<1>8. CASE Unblock \/ Close
  BY <1>8 DEF Unblock, Close, Goto
<1>9. CASE DeviceAnswers \/ DeviceReports \/ Unplug \/ Plug \/ GameRequests
  BY <1>9 DEF DeviceAnswers, DeviceReports, Unplug, Plug, GameRequests, loopVars
<1>10. CASE Signal
  BY <1>10 DEF Signal, loopVars
<1>11. CASE Kill \/ Start
  BY <1>11 DEF Kill, Start
<1>12. CASE UNCHANGED vars
  BY <1>12 DEF vars, loopVars
<1> QED
  BY <1>1, <1>2, <1>3, <1>4, <1>5, <1>6, <1>7, <1>8, <1>9, <1>10, <1>11, <1>12
     DEF Next, Main, Around

(* Wherever a signal arrives, the daemon does not sleep in ppoll after it was  *)
(* handled.                                                                    *)
THEOREM NoSignalMissed == Spec => []NeverSleepsOnSignal
<1>1. SignalInv => NeverSleepsOnSignal
  BY DEF SignalInv
<1> QED BY <1>1, InitSignalInv, NextSignalInv, PTL DEF Spec

--------------------------------------------------------------------------------
(* The descriptor is open exactly while main() is inside Gamepad::open, past   *)
(* the opening itself, or has a Gamepad; a dead one never has a streaming      *)
(* device behind it.                                                           *)
Opened == (Opening \ {"open"}) \cup Polling

DeviceInv ==
  /\ device \in {"gone", "plain", "test"}
  /\ fd = "none" \/ fd = "live" \/ fd = "dead"
  /\ pc \in Opened <=> fd # "none"
  /\ device = "test" => fd # "dead"
  /\ fd = "live" => device # "gone"
  /\ TestModeHasOwner

LEMMA InitDeviceInv == Init => DeviceInv
  BY DEF Init, DeviceInv, Opened, Opening, Polling, TestModeHasOwner

(* Once test mode off has been written, a device still streams only because    *)
(* the write failed.                                                           *)
LEMMA TestModeOffLeaves ==
  DeviceInv /\ pc \in Opened /\ TestModeOff
    => device' \in {"gone", "plain", "test"} /\ (device' = "test" => orphan')
<1> SUFFICES ASSUME DeviceInv, pc \in Opened, TestModeOff
             PROVE  device' \in {"gone", "plain", "test"} /\ (device' = "test" => orphan')
  OBVIOUS
<1>1. CASE fd = "live"
  BY <1>1 DEF TestModeOff, DeviceInv
<1>2. CASE fd # "live"
  <2>1. fd = "dead" /\ device' = device
    BY <1>2 DEF TestModeOff, DeviceInv
  <2> QED BY <2>1 DEF DeviceInv
<1> QED BY <1>1, <1>2

LEMMA NextDeviceInv == DeviceInv /\ [Next]_vars => DeviceInv'
<1> SUFFICES ASSUME DeviceInv, [Next]_vars PROVE DeviceInv'
  OBVIOUS
<1> USE DEF DeviceInv, TestModeHasOwner, Opened, Opening, Polling, deviceVars
<1>1. CASE OuterCheck \/ Wake
  BY <1>1 DEF OuterCheck, Wake, Goto
<1>2. CASE OpenHid \/ Drain \/ SendCmd
  BY <1>2 DEF OpenHid, Drain, SendCmd, Goto, GiveUp
<1>3. CASE Answered \/ Retry \/ NoAnswer
  BY <1>3 DEF Answered, AfterAnswer, Retry, NoAnswer, GiveUp
<1>4. CASE TestModeOn
  <2>1. CASE pc' = "create"
    BY <1>4, <2>1 DEF TestModeOn, GiveUp
  <2>2. CASE pc' # "create"
    <3>1. GiveUp /\ pc = "test_mode" /\ (device' = device \/ (fd = "live" /\ device' = "test"))
          /\ orphan' = (device' = "test")
      BY <1>4, <2>2 DEF TestModeOn
    <3> QED BY <3>1 DEF GiveUp
  <2> QED BY <2>1, <2>2
<1>5. CASE CreatePad
  BY <1>5 DEF CreatePad, Goto
<1>6. CASE CreateFails
  <2>1. pc' = "sleep" /\ fd' = "none"
    BY <1>6 DEF CreateFails, GiveUp
  <2>2. device' \in {"gone", "plain", "test"} /\ (device' = "test" => orphan')
    <3>1. pc \in Opened /\ TestModeOff
      BY <1>6 DEF CreateFails
    <3> QED BY <3>1, TestModeOffLeaves
  <2> QED BY <2>1, <2>2
<1>7. CASE BlockSignals \/ InnerCheck \/ PollReady \/ PollInterrupted
  BY <1>7 DEF BlockSignals, InnerCheck, PollReady, PollInterrupted, Goto
<1>8. CASE ReadReport \/ AnswerFF \/ CheckHup \/ Unblock
  BY <1>8 DEF ReadReport, AnswerFF, CheckHup, Unblock, Goto
<1>9. CASE Close
  <2>1. pc' = "outer?" /\ fd' = "none"
    BY <1>9 DEF Close, Goto
  <2>2. device' \in {"gone", "plain", "test"} /\ (device' = "test" => orphan')
    <3>1. pc \in Opened /\ TestModeOff
      BY <1>9 DEF Close, Goto
    <3> QED BY <3>1, TestModeOffLeaves
  <2> QED BY <2>1, <2>2
<1>10. CASE DeviceAnswers \/ DeviceReports \/ GameRequests \/ Signal
  BY <1>10 DEF DeviceAnswers, DeviceReports, GameRequests, Signal, loopVars
<1>11. CASE Unplug \/ Plug
  BY <1>11 DEF Unplug, Plug, loopVars
<1>12. CASE Kill
  <2>1. CASE device = "test"
    BY <1>12, <2>1 DEF Kill, Ended
  <2>2. CASE device # "test"
    BY <1>12, <2>2 DEF Kill, Ended
  <2> QED BY <2>1, <2>2
<1>13. CASE Start
  BY <1>13 DEF Start, Ended
<1>14. CASE UNCHANGED vars
  BY <1>14 DEF vars, loopVars
<1> QED
  BY <1>1, <1>2, <1>3, <1>4, <1>5, <1>6, <1>7, <1>8, <1>9, <1>10, <1>11, <1>12,
     <1>13, <1>14 DEF Next, Main, Around

(* Every way out of Gamepad::open and of the Gamepad writes test mode off, and *)
(* only a write that fails, or a kill, leaves a device streaming.              *)
THEOREM TestModeIsTurnedOff == Spec => []TestModeHasOwner
<1>1. DeviceInv => TestModeHasOwner
  BY DEF DeviceInv
<1> QED BY <1>1, InitDeviceInv, NextDeviceInv, PTL DEF Spec

--------------------------------------------------------------------------------
(* Types.  The counter of commands keeps its bound because main() comes to     *)
(* "send" only while there is a command left, and Gamepad::poll reads only     *)
(* what ppoll has seen.                                                        *)
TypeInv ==
  /\ TypeOK
  /\ pc = "drain" => step = 0
  /\ pc = "send" => step < Commands
  /\ pc = "report" /\ "in" \in revents => packets # <<>>

(* What becomes of the buffer: it is dropped, read from the front, drained, or *)
(* gets a packet.                                                              *)
LEMMA BufferEmpty == <<>> \in Buffers
BY DaemonAssumption DEF Buffers

LEMMA BufferRead ==
  ASSUME NEW s \in Buffers
  PROVE  /\ s # <<>> => Tail(s) \in Buffers
         /\ SubSeq(s, DrainReads + 1, Len(s)) \in Buffers
<1> DEFINE Packets == {"answer", "report"}
<1>1. s \in Seq(Packets) /\ Len(s) <= MaxPackets
  BY DEF Buffers
<1>2. s # <<>> => Tail(s) \in Seq(Packets) /\ Len(Tail(s)) = Len(s) - 1
  BY <1>1, HeadTailProperties
<1>3. Len(s) \in Nat /\ MaxPackets \in Nat /\ DrainReads \in Nat
  BY <1>1, DaemonAssumption
<1>4. \A i \in (DrainReads + 1) .. Len(s) : s[i] \in Packets
  BY <1>1, <1>3
<1>5. SubSeq(s, DrainReads + 1, Len(s)) \in Seq(Packets)
  BY <1>1, <1>3, <1>4
<1>6. Len(SubSeq(s, DrainReads + 1, Len(s)))
        = (IF DrainReads + 1 <= Len(s) THEN Len(s) - DrainReads ELSE 0)
  BY <1>1, <1>3
<1> QED BY <1>1, <1>2, <1>3, <1>5, <1>6 DEF Buffers

LEMMA BufferGrown ==
  ASSUME NEW s \in Buffers, NEW p \in {"answer", "report"}, Len(s) < MaxPackets
  PROVE  Append(s, p) \in Buffers /\ Append(s, p) # <<>>
<1> DEFINE Packets == {"answer", "report"}
<1>1. s \in Seq(Packets) /\ p \in Packets
  BY DEF Buffers
<1>2. Len(s) \in Nat /\ MaxPackets \in Nat
  BY <1>1, DaemonAssumption
<1>3. Append(s, p) \in Seq(Packets) /\ Len(Append(s, p)) = Len(s) + 1
  BY <1>1, AppendProperties
<1> QED BY <1>2, <1>3 DEF Buffers

LEMMA InitTypeInv == Init => TypeInv
<1> SUFFICES ASSUME Init PROVE TypeInv
  OBVIOUS
<1>1. /\ step \in 0 .. Commands /\ retry \in 0 .. Retries /\ answered \in 0 .. Commands
  BY DaemonAssumption DEF Init
<1>2. packets \in Buffers
  BY BufferEmpty DEF Init
<1> QED BY <1>1, <1>2 DEF Init, TypeInv, TypeOK, Waiting

LEMMA NextTypeInv == TypeInv /\ [Next]_vars => TypeInv'
<1> SUFFICES ASSUME TypeInv, [Next]_vars PROVE TypeInv'
  OBVIOUS
<1> USE DaemonAssumption, BufferEmpty DEF TypeInv, TypeOK, Opening, Polling, Waiting, Ended,
        loopVars, signalVars, deviceVars
<1>1. CASE OuterCheck \/ Wake
  <2>1. CASE OuterCheck
    BY <2>1 DEF OuterCheck
  <2>2. CASE Wake
    BY <2>2 DEF Wake, Goto
  <2> QED BY <1>1, <2>1, <2>2
<1>2. CASE OpenHid
  BY <1>2 DEF OpenHid, GiveUp
<1>3. CASE Drain
  BY <1>3, BufferRead DEF Drain, Goto
<1>4. CASE SendCmd
  <2>1. CASE pc' = "await"
    <3>1. /\ step' \in 0 .. Commands /\ retry' \in 0 .. Retries
          /\ UNCHANGED <<fd, packets>>
      BY <1>4, <2>1 DEF SendCmd, GiveUp
    <3> QED BY <1>4, <2>1, <3>1 DEF SendCmd
  <2>2. CASE pc' # "await"
    <3>1. GiveUp /\ UNCHANGED <<step, retry>>
      BY <1>4, <2>2 DEF SendCmd
    <3> QED BY <1>4, <3>1 DEF SendCmd, GiveUp
  <2> QED BY <2>1, <2>2
<1>5. CASE Answered
  BY <1>5, BufferRead DEF Answered, AfterAnswer
<1>6. CASE Retry \/ NoAnswer
  <2>1. CASE Retry
    <3>1. retry' \in 0 .. Retries
      BY <2>1 DEF Retry
    <3> QED BY <2>1, <3>1 DEF Retry
  <2>2. CASE NoAnswer
    BY <2>2 DEF NoAnswer, GiveUp
  <2> QED BY <1>6, <2>1, <2>2
<1>7. CASE TestModeOn
  BY <1>7 DEF TestModeOn, GiveUp
<1>8. CASE CreatePad
  BY <1>8 DEF CreatePad, Goto
<1>9. CASE CreateFails
  BY <1>9 DEF CreateFails, GiveUp, TestModeOff
<1>10. CASE BlockSignals \/ InnerCheck
  <2>1. CASE BlockSignals
    BY <2>1 DEF BlockSignals, Goto
  <2>2. CASE InnerCheck
    BY <2>2 DEF InnerCheck
  <2> QED BY <1>10, <2>1, <2>2
<1>11. CASE PollReady \/ PollInterrupted
  <2>1. CASE PollReady
    <3>1. Ready \subseteq {"in", "ff", "hup"} /\ ("in" \in Ready => packets # <<>>)
      BY DEF Ready
    <3> QED BY <2>1, <3>1 DEF PollReady, Goto
  <2>2. CASE PollInterrupted
    BY <2>2 DEF PollInterrupted, Goto
  <2> QED BY <1>11, <2>1, <2>2
<1>12. CASE ReadReport
  <2>1. pc' \in {"ff", "unblock"} /\ packets' \in Buffers
    BY <1>12, BufferRead DEF ReadReport
  <2> QED BY <1>12, <2>1 DEF ReadReport
<1>13. CASE AnswerFF \/ CheckHup \/ Unblock
  <2>1. CASE AnswerFF
    BY <2>1 DEF AnswerFF, Goto
  <2>2. CASE CheckHup
    BY <2>2 DEF CheckHup
  <2>3. CASE Unblock
    BY <2>3 DEF Unblock, Goto
  <2> QED BY <1>13, <2>1, <2>2, <2>3
<1>14. CASE Close
  BY <1>14 DEF Close, Goto, TestModeOff
<1>15. CASE DeviceAnswers
  BY <1>15, BufferGrown DEF DeviceAnswers
<1>16. CASE DeviceReports
  BY <1>16, BufferGrown DEF DeviceReports
<1>17. CASE Unplug \/ Plug \/ GameRequests \/ Signal
  <2>1. CASE Unplug
    BY <2>1 DEF Unplug
  <2>2. CASE Plug
    BY <2>2 DEF Plug
  <2>3. CASE GameRequests
    BY <2>3 DEF GameRequests
  <2>4. CASE Signal
    <3>1. signal' \in {"pending", "handled"} /\ g_running' \in BOOLEAN
      BY <2>4 DEF Signal
    <3> QED BY <2>4, <3>1 DEF Signal
  <2> QED BY <1>17, <2>1, <2>2, <2>3, <2>4
<1>18. CASE Kill \/ Start
  <2>1. CASE Kill
    <3>1. orphan' \in BOOLEAN
      BY <2>1 DEF Kill
    <3> QED BY <2>1, <3>1 DEF Kill
  <2>2. CASE Start
    <3>1. step' \in 0 .. Commands /\ retry' \in 0 .. Retries
      BY <2>2 DEF Start
    <3> QED BY <2>2, <3>1 DEF Start
  <2> QED BY <1>18, <2>1, <2>2
<1>19. CASE UNCHANGED vars
  BY <1>19 DEF vars
<1> QED
  BY <1>1, <1>2, <1>3, <1>4, <1>5, <1>6, <1>7, <1>8, <1>9, <1>10, <1>11, <1>12, <1>13,
     <1>14, <1>15, <1>16, <1>17, <1>18, <1>19 DEF Next, Main, Around

(* The counters and the buffer keep their bounds, for any number of commands,  *)
(* retries and packets.                                                        *)
THEOREM DaemonTypes == Spec => []TypeOK
<1>1. TypeInv => TypeOK
  BY DEF TypeInv
<1> QED BY <1>1, InitTypeInv, NextTypeInv, PTL DEF Spec

--------------------------------------------------------------------------------
(* The handshake of a device that is not streaming yet.  It must be in the     *)
(* state it was in when it was opened, because one that comes back is found    *)
(* behind a dead descriptor.                                                   *)
Handshake == {"drain", "send", "await", "test_mode"}

(* The commands main() takes for answered.                                     *)
Taken == CASE pc = "drain" -> 0 [] pc = "send" -> step [] pc = "await" -> step - 1
           [] OTHER -> Commands

(* Each of them used up an answer of its own, and the buffer holds no more     *)
(* packets than the device has answered since.                                 *)
AnswerInv ==
  pc \in Handshake /\ fd = "live" /\ device = "plain"
    => answered <= step /\ Taken + Len(packets) <= answered

LEMMA InitAnswerInv == Init => AnswerInv
  BY DEF Init, AnswerInv, Handshake

LEMMA BufferLength ==
  ASSUME NEW s \in Buffers
  PROVE  /\ Len(s) \in Nat /\ (s # <<>> => Len(Tail(s)) = Len(s) - 1)
         /\ \A p \in {"answer", "report"} : Len(Append(s, p)) = Len(s) + 1
<1> DEFINE Packets == {"answer", "report"}
<1>1. s \in Seq(Packets)
  BY DEF Buffers
<1> QED BY <1>1, HeadTailProperties, AppendProperties, LenProperties

LEMMA NextAnswerInv ==
  TypeInv /\ DeviceInv /\ AnswerInv /\ [Next]_vars => AnswerInv'
<1> SUFFICES ASSUME TypeInv, DeviceInv, AnswerInv, [Next]_vars PROVE AnswerInv'
  OBVIOUS
<1>1. /\ step \in Nat /\ answered \in Nat /\ Commands \in Nat \ {0} /\ step <= Commands
      /\ packets \in Buffers /\ Len(packets) \in Nat
  BY DaemonAssumption, BufferLength DEF TypeInv, TypeOK
<1> USE DEF AnswerInv, Handshake, loopVars, signalVars, deviceVars
<1>2. CASE OpenHid
  BY <1>1, <1>2 DEF OpenHid, GiveUp, Taken
<1>3. CASE Drain
  <2>1. step = 0
    BY <1>3 DEF Drain, Goto, TypeInv
  <2>2. CASE device = "plain" /\ fd = "live"
    <3>1. Len(packets) = 0 /\ answered = 0
      BY <1>1, <1>3, <2>1, <2>2 DEF Drain, Goto, Taken
    <3>2. packets = <<>>
      BY <1>1, <3>1 DEF Buffers
    <3>3. packets' = <<>>
      BY <1>3, <3>1, <3>2, DaemonAssumption DEF Drain
    <3> QED BY <1>3, <2>1, <3>1, <3>3 DEF Drain, Goto, Taken
  <2>3. CASE ~(device = "plain" /\ fd = "live")
    BY <1>3, <2>3 DEF Drain, Goto
  <2> QED BY <2>2, <2>3
<1>4. CASE SendCmd
  BY <1>1, <1>4 DEF SendCmd, GiveUp, Taken
<1>5. CASE Answered
  <2>1. Len(packets') = Len(packets) - 1
    BY <1>1, <1>5, BufferLength DEF Answered
  <2> QED BY <1>1, <1>5, <2>1 DEF Answered, AfterAnswer, Taken
<1>6. CASE Retry \/ NoAnswer
  BY <1>6 DEF Retry, NoAnswer, GiveUp, Taken
<1>7. CASE TestModeOn \/ CreatePad \/ CreateFails \/ OuterCheck \/ Wake
  BY <1>7 DEF TestModeOn, CreatePad, CreateFails, OuterCheck, Wake, Goto, GiveUp
<1>8. CASE BlockSignals \/ InnerCheck \/ PollReady \/ PollInterrupted
  BY <1>8 DEF BlockSignals, InnerCheck, PollReady, PollInterrupted, Goto
<1>9. CASE ReadReport \/ AnswerFF \/ CheckHup \/ Unblock \/ Close
  BY <1>9 DEF ReadReport, AnswerFF, CheckHup, Unblock, Close, Goto
<1>10. CASE DeviceAnswers
  <2>1. Len(packets') = Len(packets) + 1 /\ answered' = answered + 1 /\ answered < step
    BY <1>1, <1>10, BufferLength DEF DeviceAnswers
  <2>2. UNCHANGED <<pc, step, fd, device>>
    BY <1>10 DEF DeviceAnswers
  <2> QED BY <1>1, <2>1, <2>2 DEF Taken
<1>11. CASE DeviceReports \/ Unplug
  BY <1>11 DEF DeviceReports, Unplug
<1>12. CASE Plug
  BY <1>12 DEF Plug, DeviceInv
<1>13. CASE GameRequests \/ Signal \/ UNCHANGED vars
  <2>1. UNCHANGED <<pc, step, fd, packets, device, answered>>
    BY <1>13 DEF GameRequests, Signal, vars
  <2> QED BY <2>1 DEF Taken
<1>14. CASE Kill \/ Start
  BY <1>14 DEF Kill, Start
<1> QED
  BY <1>2, <1>3, <1>4, <1>5, <1>6, <1>7, <1>8, <1>9, <1>10, <1>11, <1>12, <1>13, <1>14
     DEF Next, Main, Around

(* A Gamepad opens on a device that answered each command, whatever was        *)
(* unplugged, delayed or retried meanwhile, unless it streamed from the start. *)
THEOREM OpenedAfterAnswers == Spec => InitWasAnswered
<1>1. TypeInv /\ DeviceInv /\ AnswerInv /\ [Next]_vars =>
        [TestModeOn /\ pc' = "create" => answered = Commands \/ device = "test"]_vars
  <2> SUFFICES ASSUME TypeInv, DeviceInv, AnswerInv, TestModeOn, pc' = "create", device # "test"
               PROVE  answered = Commands
    OBVIOUS
  <2>1. pc = "test_mode" /\ fd # "dead"
    BY DEF TestModeOn, GiveUp
  <2>2. fd = "live" /\ device = "plain"
    BY <2>1 DEF DeviceInv, Opened, Opening
  <2>3. Commands \in Nat /\ step \in Nat /\ answered \in Nat /\ step <= Commands
        /\ Len(packets) \in Nat
    BY DaemonAssumption, BufferLength DEF TypeInv, TypeOK
  <2>4. answered <= step /\ Commands + Len(packets) <= answered
    BY <2>1, <2>2 DEF AnswerInv, Handshake, Taken
  <2> QED BY <2>3, <2>4
<1> QED
  BY <1>1, InitTypeInv, NextTypeInv, InitDeviceInv, NextDeviceInv, InitAnswerInv, NextAnswerInv,
     PTL DEF Spec, InitWasAnswered
================================================================================
