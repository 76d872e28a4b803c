-------------------------------- MODULE Decoders --------------------------------
(* What becomes of the bytes of a report.  Two decoders read the extended one: *)
(* ext_report::parse of the daemon (protocol.hpp) and parse_ext_report of      *)
(* vader5-debug (tools/debug.cpp).  Two read the plain one: parse_report_24g,  *)
(* which vader5-debug uses (hidraw.cpp), and flydigi_parse of the kernel       *)
(* driver (hid-flydigi.c).  A byte of buttons is the set of its bits, named    *)
(* <<offset, bit>>; one stick's Y stands for both, and one axis of the gyro    *)
(* for the six words of the IMU.  X and the triggers are copied by all four.   *)
EXTENDS Integers, FiniteSets

CONSTANTS
  Sizes,     \* how many bytes a read may return
  Raws,      \* the 16-bit words a report may carry
  MaxDown    \* how many bits are set at most (bound)

Gyro == {1}   \* anything but at rest
Int16 == {n \in Int : -32768 <= n /\ n <= 32767}

ASSUME DecodersAssumption == Sizes \subseteq Nat /\ Raws \subseteq Int16 /\ MaxDown \in Nat

Bits == (0 .. 31) \X (0 .. 7)

VARIABLE report   \* the report received last

Formats == {"ext", "plain"}

(* Where the two formats have their buttons, the unused bits among them.       *)
ButtonBytes(format) == IF format = "ext" THEN 11 .. 14 ELSE {2, 3, 14, 15}

Set(table, bits) == {button \in DOMAIN table : table[button] \in bits}
Byte(offset, bits) == {bit \in 0 .. 7 : <<offset, bit>> \in bits}

(* static_cast<int16_t>                                                        *)
ToInt16(n) == ((n + 32768) % 65536) - 32768

Clamp(n) == IF n > 32767 THEN 32767 ELSE IF n < -32767 THEN -32767 ELSE n

--------------------------------------------------------------------------------
(* The d-pad.                                                                  *)

DPAD_MAP ==
  [nibble \in SUBSET (0 .. 3) |->
     CASE nibble = {0} -> {"up"}
       [] nibble = {1} -> {"right"}
       [] nibble = {0, 1} -> {"up", "right"}
       [] nibble = {2} -> {"down"}
       [] nibble = {1, 2} -> {"down", "right"}
       [] nibble = {3} -> {"left"}
       [] nibble = {0, 3} -> {"up", "left"}
       [] nibble = {2, 3} -> {"down", "left"}
       [] OTHER -> {}]

Dpad(offset, bits) == DPAD_MAP[Byte(offset, bits) \cap (0 .. 3)]

--------------------------------------------------------------------------------
(* The extended report.                                                        *)

(* parse_buttons of protocol.hpp.                                              *)
B11_B12 ==
  [A |-> <<11, 4>>, B |-> <<11, 5>>, SELECT |-> <<11, 6>>, X |-> <<11, 7>>,
   Y |-> <<12, 0>>, START |-> <<12, 1>>, LB |-> <<12, 2>>, RB |-> <<12, 3>>,
   L3 |-> <<12, 6>>, R3 |-> <<12, 7>>]

(* ext_report::parse: without its last words a report leaves the IMU at zero.  *)
DaemonTakes(r) == r.format = "ext" /\ r.size >= 17 /\ r.magic
ExtReportParse(r) ==
  [buttons |-> Set(B11_B12, r.bits), dpad |-> Dpad(11, r.bits),
   ext_buttons |-> Byte(13, r.bits), ext_buttons2 |-> Byte(14, r.bits),
   y |-> Clamp(-r.y), gyro |-> IF r.size >= 29 THEN r.gyro ELSE 0]

(* parse_ep2_buttons of the debug tool has a table of its own.                 *)
EP2_B11_B12_Shifted ==   \* mutant: LB and RB one bit up
  [A |-> <<11, 4>>, B |-> <<11, 5>>, SELECT |-> <<11, 6>>, X |-> <<11, 7>>,
   Y |-> <<12, 0>>, START |-> <<12, 1>>, LB |-> <<12, 3>>, RB |-> <<12, 4>>,
   L3 |-> <<12, 6>>, R3 |-> <<12, 7>>]
EP2_B11_B12 ==
  [A |-> <<11, 4>>, B |-> <<11, 5>>, SELECT |-> <<11, 6>>, X |-> <<11, 7>>,
   Y |-> <<12, 0>>, START |-> <<12, 1>>, LB |-> <<12, 2>>, RB |-> <<12, 3>>,
   L3 |-> <<12, 6>>, R3 |-> <<12, 7>>]

(* So has parse_ep2_dpad: a table over the value of the four bits.             *)
EP2_DPAD_MAP ==
  << {},               {"up"},         {"right"}, {"up", "right"},
     {"down"},         {},             {"down", "right"}, {},
     {"left"},         {"up", "left"}, {}, {},
     {"down", "left"}, {}, {}, {} >>

Value(nibble) ==
  LET bit(i, weight) == IF i \in nibble THEN weight ELSE 0
  IN  bit(0, 1) + bit(1, 2) + bit(2, 4) + bit(3, 8)

EP2Dpad(bits) == EP2_DPAD_MAP[1 + Value(Byte(11, bits))]

(* parse_ext_report, called by config_thread for whole reports only.           *)
ConfigThreadTakes(r) == r.format = "ext" /\ r.size >= 29 /\ r.magic
ParseExtReport(r) ==
  [buttons |-> Set(EP2_B11_B12, r.bits), dpad |-> EP2Dpad(r.bits),
   ext_buttons |-> Byte(13, r.bits), ext_buttons2 |-> Byte(14, r.bits),
   y |-> ToInt16(-r.y), gyro |-> r.gyro]

--------------------------------------------------------------------------------
(* The plain report.                                                           *)

MiscBtns ==
  [START |-> <<2, 4>>, SELECT |-> <<2, 5>>, L3 |-> <<2, 6>>, R3 |-> <<2, 7>>,
   LB |-> <<3, 0>>, RB |-> <<3, 1>>, MODE |-> <<3, 3>>, A |-> <<3, 4>>,
   B |-> <<3, 5>>, X |-> <<3, 6>>, Y |-> <<3, 7>>]

(* Hidraw::parse_report and parse_report_24g.                                  *)
InputThreadTakes(r) == r.format = "plain" /\ r.size = 20 /\ r.magic
ParseReport(r) ==
  [buttons |-> Set(MiscBtns, r.bits), dpad |-> Dpad(2, r.bits),
   ext_buttons |-> Byte(14, r.bits), ext_buttons2 |-> Byte(15, r.bits),
   y |-> ToInt16(-r.y), gyro |-> 0]

DpadButtons ==
  [START |-> <<2, 4>>, SELECT |-> <<2, 5>>, L3 |-> <<2, 6>>, R3 |-> <<2, 7>>,
   LB |-> <<3, 0>>, RB |-> <<3, 1>>, MODE |-> <<3, 2>>, A |-> <<3, 4>>,
   B |-> <<3, 5>>, X |-> <<3, 6>>, Y |-> <<3, 7>>]

(* hat_x and hat_y: of two opposite directions the later test wins.            *)
Hat(nibble) ==
  {d \in {"up", "down", "left", "right"} :
     \/ d = "up" /\ 0 \in nibble /\ 1 \notin nibble
     \/ d = "down" /\ 1 \in nibble
     \/ d = "left" /\ 2 \in nibble /\ 3 \notin nibble
     \/ d = "right" /\ 3 \in nibble}

(* flydigi_irq_in and flydigi_parse: nothing but the length is looked at, and  *)
(* the negated word goes to the input core as an int.                          *)
DriverTakes(r) == r.format = "plain" /\ r.size >= 14
FlydigiParse_UpIsPlus(r) ==   \* mutant: the sign is left alone
  [buttons |-> Set(DpadButtons, r.bits), dpad |-> Hat(Byte(2, r.bits)), y |-> r.y]
FlydigiParse(r) ==
  [buttons |-> Set(DpadButtons, r.bits), dpad |-> Hat(Byte(2, r.bits)), y |-> -r.y]

--------------------------------------------------------------------------------
(* The controller: one thing at a time differs between two reports.  The gyro  *)
(* is anything but at rest, to be told from an IMU that is not reported.       *)

Init ==
  report \in [format : Formats, magic : {TRUE}, size : Sizes, bits : {{}},
              y : Raws, gyro : Gyro]

Toggle(bit) ==
  /\ bit[1] \in ButtonBytes(report.format)
  /\ bit \notin report.bits => Cardinality(report.bits) < MaxDown
  /\ report' = [report EXCEPT !.bits = IF bit \in @ THEN @ \ {bit} ELSE @ \cup {bit}]

Push(y) == report' = [report EXCEPT !.y = y]

(* Another packet of the same interface: the answer to a command, or a part.   *)
Other(size, magic) == report' = [report EXCEPT !.size = size, !.magic = magic]

Next ==
  \/ \E bit \in (UNION {ButtonBytes(f) : f \in Formats}) \X (0 .. 7) : Toggle(bit)
  \/ \E y \in Raws : Push(y)
  \/ \E size \in Sizes, magic \in BOOLEAN : Other(size, magic)

Spec == Init /\ [][Next]_report

--------------------------------------------------------------------------------
GamepadStates ==
  [buttons : SUBSET (DOMAIN MiscBtns), dpad : SUBSET {"up", "down", "left", "right"},
   ext_buttons : SUBSET (0 .. 7), ext_buttons2 : SUBSET (0 .. 7), y : Int16, gyro : Int16]

(* A decoded state fits the fields of GamepadState; the daemon's sticks are    *)
(* symmetric.                                                                  *)
TypeOK ==
  /\ report \in [format : Formats, magic : BOOLEAN, size : Sizes, bits : SUBSET Bits,
                 y : Raws, gyro : Gyro]
  /\ ParseReport(report) \in GamepadStates
  /\ ParseExtReport(report) \in GamepadStates
  /\ ExtReportParse(report) \in GamepadStates /\ ExtReportParse(report).y # -32768

(* vader5-debug in test mode shows what the daemon works with, but for a stick *)
(* pulled all the way: -32768 is clamped by one and wraps in the other.        *)
TestModeShowsDaemonsView ==
  LET shown == ParseExtReport(report)  seen == ExtReportParse(report) IN
  ConfigThreadTakes(report) =>
    /\ DaemonTakes(report)
    /\ [shown EXCEPT !.y = 0] = [seen EXCEPT !.y = 0]
    /\ IF report.y # -32768 THEN shown.y = seen.y
                            ELSE shown.y = -32768 /\ seen.y = 32767

(* The decoders of the plain report agree on the buttons but HOME, which each  *)
(* takes from a bit of its own, on the stick but for -32768, which one wraps,  *)
(* and on the d-pad only for up: right, down and left have other bits.         *)
PlainDecodersAgree ==
  LET shown == ParseReport(report)  reported == FlydigiParse(report) IN
  InputThreadTakes(report) =>
    /\ DriverTakes(report)
    /\ shown.buttons \ {"MODE"} = reported.buttons \ {"MODE"}
    /\ shown.y = reported.y \/ report.y = -32768
    /\ Byte(2, report.bits) \cap (1 .. 3) = {} => shown.dpad = reported.dpad

(* Pushing the stick further never turns it back, in what the daemon and the   *)
(* kernel driver report; the other two wrap at the end.                        *)
UpStaysUp ==
  [][report.y <= report'.y =>
       /\ ExtReportParse(report').y <= ExtReportParse(report).y
       /\ FlydigiParse(report').y <= FlydigiParse(report).y
       /\ report.y > -32768 => /\ ParseExtReport(report').y <= ParseExtReport(report).y
                               /\ ParseReport(report').y <= ParseReport(report).y]_report
================================================================================
