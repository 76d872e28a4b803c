----------------------------- MODULE DecodersProofs -----------------------------
(* Theorems about Decoders: for every set of bits, however many are set, every *)
(* length, and every word a report can carry.                                  *)
EXTENDS Decoders, TLAPS

ReportOK ==
  report \in [format : Formats, magic : BOOLEAN, size : Sizes, bits : SUBSET Bits,
              y : Raws, gyro : Gyro]

(* A report is well formed at first.                                           *)
LEMMA InitReportOK == Init => ReportOK
  BY DEF Init, ReportOK

(* It stays so whatever the controller changes.                                *)
LEMMA NextReportOK == ReportOK /\ [Next]_report => ReportOK'
<1> SUFFICES ASSUME ReportOK, [Next]_report PROVE ReportOK'
  OBVIOUS
<1> USE DEF ReportOK
<1>1. ASSUME NEW bit \in (UNION {ButtonBytes(f) : f \in Formats}) \X (0 .. 7), Toggle(bit)
      PROVE  ReportOK'
  <2>1. bit \in Bits
    BY <1>1 DEF ButtonBytes, Formats, Bits
  <2> QED BY <1>1, <2>1 DEF Toggle
<1>2. ASSUME NEW y \in Raws, Push(y) PROVE ReportOK'
  BY <1>2 DEF Push
<1>3. ASSUME NEW size \in Sizes, NEW magic \in BOOLEAN, Other(size, magic)
      PROVE  ReportOK'
  BY <1>3 DEF Other
<1>4. CASE UNCHANGED report
  BY <1>4
<1> QED BY <1>1, <1>2, <1>3, <1>4 DEF Next

LEMMA ReportsOK == Spec => []ReportOK
  BY InitReportOK, NextReportOK, PTL DEF Spec

(* The range of a 16-bit word, for the provers to use as an inequality.        *)
LEMMA Int16Bounds ==
  ASSUME NEW n
  PROVE  n \in Int16 <=> n \in Int /\ -32768 <= n /\ n <= 32767
  BY DEF Int16

(* A number below 65536 is its own remainder.                                  *)
LEMMA SmallMod ==
  ASSUME NEW m \in Int, 0 <= m, m < 65536 PROVE m % 65536 = m
  OBVIOUS

(* The cast changes no negated word but -32768, which it wraps.                *)
LEMMA CastNegated ==
  ASSUME NEW n \in Int16
  PROVE  ToInt16(-n) = (IF n = -32768 THEN -32768 ELSE -n)
<1>1. n \in Int /\ -32768 <= n /\ n <= 32767
  BY Int16Bounds
<1>2. 65536 % 65536 = 0
  OBVIOUS
<1>3. CASE n = -32768
  BY <1>2, <1>3 DEF ToInt16
<1>4. CASE n # -32768
  <2>1. -n + 32768 \in Int /\ 0 <= -n + 32768 /\ -n + 32768 < 65536
    BY <1>1, <1>4
  <2>2. (-n + 32768) % 65536 = -n + 32768
    BY <2>1, SmallMod
  <2> QED BY <1>1, <1>4, <2>2 DEF ToInt16
<1> QED BY <1>3, <1>4

(* The clamp changes none but -32768, which it lowers by one.                  *)
LEMMA ClampNegated ==
  ASSUME NEW n \in Int16
  PROVE  Clamp(-n) = (IF n = -32768 THEN 32767 ELSE -n)
<1>1. n \in Int /\ -32768 <= n /\ n <= 32767
  BY Int16Bounds
<1> QED BY <1>1 DEF Clamp

LEMMA WordsAreInt16 == ReportOK => report.y \in Int16
  BY DecodersAssumption DEF ReportOK

(* Each direction a nibble stands for is one of the four.                      *)
LEMMA DpadDirections ==
  ASSUME NEW offset, NEW bits
  PROVE  Dpad(offset, bits) \in SUBSET {"up", "down", "left", "right"}
<1> DEFINE nibble == Byte(offset, bits) \cap (0 .. 3)
<1>1. nibble \in SUBSET (0 .. 3)
  OBVIOUS
<1> QED BY <1>1 DEF Dpad, DPAD_MAP

(* What the two tables of the d-pad hold.                                      *)
LEMMA DpadEntries ==
  /\ DPAD_MAP[{0}] = {"up"} /\ DPAD_MAP[{1}] = {"right"}
  /\ DPAD_MAP[{0, 1}] = {"up", "right"} /\ DPAD_MAP[{2}] = {"down"}
  /\ DPAD_MAP[{1, 2}] = {"down", "right"} /\ DPAD_MAP[{3}] = {"left"}
  /\ DPAD_MAP[{0, 3}] = {"up", "left"} /\ DPAD_MAP[{2, 3}] = {"down", "left"}
<1>1. DPAD_MAP[{0}] = {"up"} /\ DPAD_MAP[{1}] = {"right"}
  BY DEF DPAD_MAP
<1>2. DPAD_MAP[{0, 1}] = {"up", "right"} /\ DPAD_MAP[{2}] = {"down"}
  BY DEF DPAD_MAP
<1>3. DPAD_MAP[{1, 2}] = {"down", "right"} /\ DPAD_MAP[{3}] = {"left"}
  BY DEF DPAD_MAP
<1>4. DPAD_MAP[{0, 3}] = {"up", "left"} /\ DPAD_MAP[{2, 3}] = {"down", "left"}
  BY DEF DPAD_MAP
<1> QED BY <1>1, <1>2, <1>3, <1>4

LEMMA NoDirection ==
  ASSUME NEW n \in SUBSET (0 .. 3),
         n # {0}, n # {1}, n # {0, 1}, n # {2}, n # {1, 2}, n # {3}, n # {0, 3}, n # {2, 3}
  PROVE  DPAD_MAP[n] = {}
BY DEF DPAD_MAP

LEMMA EP2Entries ==
  /\ EP2_DPAD_MAP[2] = {"up"} /\ EP2_DPAD_MAP[3] = {"right"}
  /\ EP2_DPAD_MAP[4] = {"up", "right"} /\ EP2_DPAD_MAP[5] = {"down"}
  /\ EP2_DPAD_MAP[7] = {"down", "right"} /\ EP2_DPAD_MAP[9] = {"left"}
  /\ EP2_DPAD_MAP[10] = {"up", "left"} /\ EP2_DPAD_MAP[13] = {"down", "left"}
  /\ \A i \in {1, 6, 8, 11, 12, 14, 15, 16} : EP2_DPAD_MAP[i] = {}
BY DEF EP2_DPAD_MAP

(* They agree on every nibble: the lookup of the debug tool depends on the     *)
(* four lower bits alone, and finds for each set of them what DPAD_MAP holds.  *)
LEMMA DpadTablesAgree ==
  ASSUME NEW bits
  PROVE  EP2Dpad(bits) = Dpad(11, bits)
<1> DEFINE nibble == Byte(11, bits) \cap (0 .. 3)
<1>1. nibble \in SUBSET (0 .. 3) /\ Value(Byte(11, bits)) = Value(nibble)
  BY DEF Value
<1>2. Dpad(11, bits) = DPAD_MAP[nibble] /\ EP2Dpad(bits) = EP2_DPAD_MAP[1 + Value(nibble)]
  BY <1>1 DEF Dpad, EP2Dpad
<1> HIDE DEF nibble
<1>3. SUFFICES EP2_DPAD_MAP[1 + Value(nibble)] = DPAD_MAP[nibble]
  BY <1>2
<1>4. CASE \/ nibble = {0} \/ nibble = {1} \/ nibble = {0, 1} \/ nibble = {2}
           \/ nibble = {1, 2} \/ nibble = {3} \/ nibble = {0, 3} \/ nibble = {2, 3}
  <2>1. /\ 1 + Value({0}) = 2 /\ 1 + Value({1}) = 3 /\ 1 + Value({0, 1}) = 4
        /\ 1 + Value({2}) = 5 /\ 1 + Value({1, 2}) = 7 /\ 1 + Value({3}) = 9
        /\ 1 + Value({0, 3}) = 10 /\ 1 + Value({2, 3}) = 13
    BY DEF Value
  <2>2. /\ EP2_DPAD_MAP[1 + Value({0})] = DPAD_MAP[{0}]
        /\ EP2_DPAD_MAP[1 + Value({1})] = DPAD_MAP[{1}]
        /\ EP2_DPAD_MAP[1 + Value({0, 1})] = DPAD_MAP[{0, 1}]
        /\ EP2_DPAD_MAP[1 + Value({2})] = DPAD_MAP[{2}]
        /\ EP2_DPAD_MAP[1 + Value({1, 2})] = DPAD_MAP[{1, 2}]
        /\ EP2_DPAD_MAP[1 + Value({3})] = DPAD_MAP[{3}]
        /\ EP2_DPAD_MAP[1 + Value({0, 3})] = DPAD_MAP[{0, 3}]
        /\ EP2_DPAD_MAP[1 + Value({2, 3})] = DPAD_MAP[{2, 3}]
    BY <2>1, DpadEntries, EP2Entries
  <2> QED BY <1>4, <2>2
<1>5. CASE /\ nibble # {0} /\ nibble # {1} /\ nibble # {0, 1} /\ nibble # {2}
           /\ nibble # {1, 2} /\ nibble # {3} /\ nibble # {0, 3} /\ nibble # {2, 3}
  <2>1. DPAD_MAP[nibble] = {}
    BY <1>1, <1>5, NoDirection
  <2>2. \/ 0 \notin nibble /\ 1 \notin nibble /\ 2 \notin nibble /\ 3 \notin nibble
        \/ 0 \in nibble /\ 2 \in nibble
        \/ 1 \in nibble /\ 3 \in nibble
    <3>1. nibble \in SUBSET {0, 1, 2, 3}
      BY <1>1
    <3> QED BY <1>5, <3>1
  <2>3. 1 + Value(nibble) \in {1, 6, 8, 11, 12, 14, 15, 16}
    BY <2>2 DEF Value
  <2> QED BY <2>1, <2>3, EP2Entries
<1> QED BY <1>4, <1>5

(* What the three user-space decoders return fits the fields of GamepadState.  *)
THEOREM StatesFit == Spec => []TypeOK
<1>1. ReportOK => TypeOK
  <2> SUFFICES ASSUME ReportOK PROVE TypeOK
    OBVIOUS
  <2>1. /\ ToInt16(-report.y) \in Int16
        /\ Clamp(-report.y) \in Int16 /\ Clamp(-report.y) # -32768
    <3> DEFINE y == report.y
    <3>1. y \in Int16
      BY WordsAreInt16
    <3> HIDE DEF y
    <3>2. y \in Int /\ -32768 <= y /\ y <= 32767
      BY <3>1, Int16Bounds
    <3>3. /\ ToInt16(-y) = (IF y = -32768 THEN -32768 ELSE -y)
          /\ Clamp(-y) = (IF y = -32768 THEN 32767 ELSE -y)
      BY <3>1, CastNegated, ClampNegated
    <3>4. ToInt16(-y) \in Int16 /\ Clamp(-y) \in Int16 /\ Clamp(-y) # -32768
      BY <3>2, <3>3, Int16Bounds
    <3> QED BY <3>4 DEF y
  <2>2. report.gyro \in Int16 /\ 0 \in Int16
    BY Int16Bounds DEF ReportOK, Gyro
  <2>3. /\ Set(MiscBtns, report.bits) \subseteq DOMAIN MiscBtns
        /\ Set(B11_B12, report.bits) \subseteq DOMAIN MiscBtns
        /\ Set(EP2_B11_B12, report.bits) \subseteq DOMAIN MiscBtns
    BY DEF Set, MiscBtns, B11_B12, EP2_B11_B12
  <2>4. \A offset \in 0 .. 31 : Byte(offset, report.bits) \subseteq 0 .. 7
    BY DEF Byte
  <2>5. ParseReport(report) \in GamepadStates
    BY <2>1, <2>2, <2>3, <2>4, DpadDirections DEF ParseReport, GamepadStates
  <2>6. ParseExtReport(report) \in GamepadStates
    BY <2>1, <2>2, <2>3, <2>4, DpadDirections, DpadTablesAgree
       DEF ParseExtReport, GamepadStates
  <2>7. ExtReportParse(report) \in GamepadStates /\ ExtReportParse(report).y # -32768
    BY <2>1, <2>2, <2>3, <2>4, DpadDirections DEF ExtReportParse, GamepadStates
  <2> QED BY <2>5, <2>6, <2>7 DEF TypeOK, ReportOK
<1> QED BY <1>1, ReportsOK, PTL

(* In test mode vader5-debug shows what the daemon works with, except for a    *)
(* stick at -32768.                                                            *)
THEOREM TestModeIsFaithful == Spec => []TestModeShowsDaemonsView
<1>1. ReportOK => TestModeShowsDaemonsView
  <2> SUFFICES ASSUME ReportOK, ConfigThreadTakes(report) PROVE TestModeShowsDaemonsView
    BY DEF TestModeShowsDaemonsView
  <2>1. report.size \in Nat
    <3>1. report.size \in Sizes
      BY DEF ReportOK
    <3> QED BY <3>1, DecodersAssumption
  <2>2. DaemonTakes(report) /\ report.size >= 29
    BY <2>1 DEF DaemonTakes, ConfigThreadTakes
  <2>3. B11_B12 = EP2_B11_B12
    BY DEF B11_B12, EP2_B11_B12
  <2> QED
    BY <2>2, <2>3, WordsAreInt16, CastNegated, ClampNegated, DpadTablesAgree
    DEF TestModeShowsDaemonsView, ExtReportParse, ParseExtReport
<1> QED BY <1>1, ReportsOK, PTL

(* The two decoders of the plain report agree on all but HOME, three           *)
(* directions of the d-pad, and -32768.                                        *)
THEOREM PlainDecodersDiffer == Spec => []PlainDecodersAgree
<1>1. ReportOK => PlainDecodersAgree
  <2> SUFFICES ASSUME ReportOK, InputThreadTakes(report) PROVE PlainDecodersAgree
    BY DEF PlainDecodersAgree
  <2>1. DriverTakes(report)
    BY DEF InputThreadTakes, DriverTakes
  <2>2. ASSUME NEW button PROVE button \in Set(MiscBtns, report.bits) \ {"MODE"} <=>
                                button \in Set(DpadButtons, report.bits) \ {"MODE"}
    BY DEF Set, MiscBtns, DpadButtons
  <2>3. report.y = -32768 \/ ToInt16(-report.y) = -report.y
    BY WordsAreInt16, CastNegated
  <2>4. ASSUME Byte(2, report.bits) \cap (1 .. 3) = {}
        PROVE  Dpad(2, report.bits) = Hat(Byte(2, report.bits))
    <3>1. \/ 0 \in Byte(2, report.bits) /\ Byte(2, report.bits) \cap (0 .. 3) = {0}
          \/ 0 \notin Byte(2, report.bits) /\ Byte(2, report.bits) \cap (0 .. 3) = {}
      BY <2>4
    <3> QED BY <2>4, <3>1 DEF Dpad, DPAD_MAP, Hat
  <2> QED
    BY <2>1, <2>2, <2>3, <2>4 DEF PlainDecodersAgree, ParseReport, FlydigiParse
<1> QED BY <1>1, ReportsOK, PTL

(* The stick keeps its direction in what the daemon and the driver report.     *)
THEOREM DirectionKept == Spec => UpStaysUp
<1>1. ReportOK /\ ReportOK' /\ report.y <= report'.y =>
        /\ ExtReportParse(report').y <= ExtReportParse(report).y
        /\ FlydigiParse(report').y <= FlydigiParse(report).y
        /\ report.y > -32768 =>
             /\ ParseExtReport(report').y <= ParseExtReport(report).y
             /\ ParseReport(report').y <= ParseReport(report).y
  <2> SUFFICES ASSUME ReportOK, ReportOK', report.y <= report'.y
               PROVE  /\ Clamp(-report'.y) <= Clamp(-report.y)
                      /\ -report'.y <= -report.y
                      /\ report.y > -32768 => ToInt16(-report'.y) <= ToInt16(-report.y)
    BY DEF ExtReportParse, FlydigiParse, ParseExtReport, ParseReport
  <2> DEFINE y == report.y
             z == report'.y
  <2>1. y \in Int16 /\ z \in Int16 /\ y <= z
    BY DecodersAssumption DEF ReportOK
  <2> HIDE DEF y, z
  <2>2. Clamp(-z) <= Clamp(-y) /\ -z <= -y /\ (y > -32768 => ToInt16(-z) <= ToInt16(-y))
    <3>1. /\ y \in Int /\ -32768 <= y /\ y <= 32767
          /\ z \in Int /\ -32768 <= z /\ z <= 32767
      BY <2>1, Int16Bounds
    <3>2. /\ ToInt16(-y) = (IF y = -32768 THEN -32768 ELSE -y)
          /\ ToInt16(-z) = (IF z = -32768 THEN -32768 ELSE -z)
          /\ Clamp(-y) = (IF y = -32768 THEN 32767 ELSE -y)
          /\ Clamp(-z) = (IF z = -32768 THEN 32767 ELSE -z)
      BY <2>1, ClampNegated, CastNegated
    <3> QED BY <2>1, <3>1, <3>2
  <2> QED BY <2>2 DEF y, z
<1> QED BY <1>1, ReportsOK, PTL DEF UpStaysUp
================================================================================
