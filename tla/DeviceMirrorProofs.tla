-------------------------- MODULE DeviceMirrorProofs --------------------------
(***************************************************************************)
(* The mirror of the converter and its battery, for all messages and       *)
(* reports that may come in, in every order.                               *)
(***************************************************************************)
EXTENDS DeviceMirror, CanFrameProofs, SequenceTheorems

-----------------------------------------------------------------------------
(* The layout, row by row. *)

Row(class, dev, par, field, width, word) ==
    [msg |-> <<class, dev, par>>, field |-> field, width |-> width, word |-> word]

SignalTable ==
    {Row(3, 4, 2, "dcdc_state1", 1, 1), Row(3, 4, 3, "dcdc_alarm1", 1, 1),
     Row(3, 4, 4, "dcdc_fault1", 1, 1), Row(3, 4, 4, "dcdc_fault2", 1, 2),
     Row(3, 8, 1, "bms_state1", 1, 1), Row(3, 8, 2, "bms_alarm1", 1, 1),
     Row(3, 8, 3, "bms_protect1", 1, 1), Row(3, 8, 4, "bms_fault1", 1, 1)}

VersionTable ==
    {Row(4, 4, 2, "u16Pversion", 1, 1), Row(4, 4, 2, "u16Sversion", 1, 2),
     Row(4, 4, 2, "u16Vversion", 1, 3), Row(4, 4, 3, "u16Aversion", 1, 1),
     Row(4, 4, 3, "u16Dversion", 1, 2), Row(4, 4, 3, "u16HardWare_Version", 1, 3),
     Row(4, 4, 5, "heartbeat", 1, 1)}

PowerTable ==
    {Row(4, 4, 16, "bat_voltage", 1, 1), Row(4, 4, 16, "bat_current", 1, 2),
     Row(4, 4, 16, "bat_power", 1, 3), Row(4, 4, 17, "bus_voltage", 1, 1),
     Row(4, 4, 17, "bus_current", 1, 2), Row(4, 4, 17, "bus_power", 1, 3),
     Row(4, 4, 20, "energr_for_CHG", 2, 1), Row(4, 4, 21, "energr_for_DISCH", 2, 1)}

HeatTable ==
    {Row(4, 4, 22, "env_temp", 1, 1), Row(4, 4, 22, "fanSpeed", 1, 2),
     Row(4, 4, 23, "heatsinkTemp1", 1, 1), Row(4, 4, 23, "heatsinkTemp2", 1, 2),
     Row(4, 4, 23, "heatsinkTemp3", 1, 3), Row(4, 4, 24, "heatsinkTemp4", 1, 1),
     Row(4, 4, 24, "heatsinkTemp5", 1, 2), Row(4, 4, 24, "heatsinkTemp6", 1, 3),
     Row(4, 4, 25, "heatsinkTemp7", 1, 1), Row(4, 4, 25, "heatsinkTemp8", 1, 2),
     Row(4, 4, 25, "heatsinkTemp9", 1, 3)}

DcdcTable == VersionTable \cup PowerTable \cup HeatTable

BatteryTable ==
    {Row(4, 8, 3, "bms_bat_totalvol", 1, 1), Row(4, 8, 3, "bms_bat_totalcur", 2, 2),
     Row(4, 8, 4, "bms_soc", 1, 1), Row(4, 8, 4, "bms_soh", 1, 2),
     Row(4, 8, 4, "bms_env_temp", 1, 3)}

CellTable ==
    {Row(4, 8, 5, "bms_sigleMinVol", 1, 1), Row(4, 8, 5, "bms_sigleMinVolNum", 1, 2),
     Row(4, 8, 6, "bms_sigleMaxVol", 1, 1), Row(4, 8, 6, "bms_sigleMaxVolNum", 1, 2),
     Row(4, 8, 7, "bms_sigleMinTemp", 1, 1),
     Row(4, 8, 7, "bms_sigleMinTempNum", 1, 2),
     Row(4, 8, 8, "bms_sigleMaxTemp", 1, 1), Row(4, 8, 8, "bms_sigleMaxTempNum", 1, 2)}

LimitTable ==
    {Row(4, 8, 11, "bms_voldiff", 1, 1), Row(4, 8, 11, "bms_tempdiff", 1, 2),
     Row(4, 8, 12, "bms_chgVolLimit", 1, 1),
     Row(4, 8, 12, "bms_dischgVolLimit", 1, 2),
     Row(4, 8, 13, "bms_chgcurrentLimit", 1, 1),
     Row(4, 8, 13, "bms_dischgcurrentLimit", 1, 2)}

BmsTable == BatteryTable \cup CellTable \cup LimitTable

\* A case that reads one, two or three words.
LEMMA OneRow ==
    ASSUME NEW class, NEW dev, NEW par, NEW width, NEW a
    PROVE  Rows(class, dev, par, width, <<a>>) = {Row(class, dev, par, a, width, 1)}
BY DEF Rows, Row

LEMMA TwoRows ==
    ASSUME NEW class, NEW dev, NEW par, NEW width, NEW a, NEW b
    PROVE  Rows(class, dev, par, width, <<a, b>>) =
               {Row(class, dev, par, a, width, 1), Row(class, dev, par, b, width, 2)}
BY DEF Rows, Row

LEMMA ThreeRows ==
    ASSUME NEW class, NEW dev, NEW par, NEW width, NEW a, NEW b, NEW c
    PROVE  Rows(class, dev, par, width, <<a, b, c>>) =
               {Row(class, dev, par, a, width, 1), Row(class, dev, par, b, width, 2),
                Row(class, dev, par, c, width, 3)}
BY DEF Rows, Row

LEMMA LayoutTable ==
    /\ SignalRows = SignalTable
    /\ DcdcMeterRows = DcdcTable
    /\ BmsMeterRows = BmsTable
<1>1. /\ Signals(DEV_DCDC, 2, <<"dcdc_state1">>) =
             {Row(3, 4, 2, "dcdc_state1", 1, 1)}
      /\ Signals(DEV_DCDC, 3, <<"dcdc_alarm1">>) =
             {Row(3, 4, 3, "dcdc_alarm1", 1, 1)}
      /\ Signals(DEV_DCDC, 4, <<"dcdc_fault1", "dcdc_fault2">>) =
             {Row(3, 4, 4, "dcdc_fault1", 1, 1), Row(3, 4, 4, "dcdc_fault2", 1, 2)}
      /\ Signals(DEV_BMS, 1, <<"bms_state1">>) =
             {Row(3, 8, 1, "bms_state1", 1, 1)}
      /\ Signals(DEV_BMS, 2, <<"bms_alarm1">>) =
             {Row(3, 8, 2, "bms_alarm1", 1, 1)}
      /\ Signals(DEV_BMS, 3, <<"bms_protect1">>) =
             {Row(3, 8, 3, "bms_protect1", 1, 1)}
      /\ Signals(DEV_BMS, 4, <<"bms_fault1">>) =
             {Row(3, 8, 4, "bms_fault1", 1, 1)}
    BY OneRow, TwoRows, ThreeRows DEF Signals, Meters, RemoteSignalMsg, RemoteMeterMsg, DEV_DCDC, DEV_BMS
<1>2. SignalRows = SignalTable
    BY <1>1, Zenon DEF SignalRows, SignalTable
<1>3. /\ Meters(DEV_DCDC, 2, <<"u16Pversion", "u16Sversion", "u16Vversion">>) =
             {Row(4, 4, 2, "u16Pversion", 1, 1), Row(4, 4, 2, "u16Sversion", 1, 2),
              Row(4, 4, 2, "u16Vversion", 1, 3)}
      /\ Meters(DEV_DCDC, 3, <<"u16Aversion", "u16Dversion", "u16HardWare_Version">>) =
             {Row(4, 4, 3, "u16Aversion", 1, 1), Row(4, 4, 3, "u16Dversion", 1, 2),
              Row(4, 4, 3, "u16HardWare_Version", 1, 3)}
      /\ Meters(DEV_DCDC, 5, <<"heartbeat">>) =
             {Row(4, 4, 5, "heartbeat", 1, 1)}
      /\ Meters(DEV_DCDC, 16, <<"bat_voltage", "bat_current", "bat_power">>) =
             {Row(4, 4, 16, "bat_voltage", 1, 1), Row(4, 4, 16, "bat_current", 1, 2),
              Row(4, 4, 16, "bat_power", 1, 3)}
      /\ Meters(DEV_DCDC, 17, <<"bus_voltage", "bus_current", "bus_power">>) =
             {Row(4, 4, 17, "bus_voltage", 1, 1), Row(4, 4, 17, "bus_current", 1, 2),
              Row(4, 4, 17, "bus_power", 1, 3)}
      /\ Rows(RemoteMeterMsg, DEV_DCDC, 20, 2, <<"energr_for_CHG">>) =
             {Row(4, 4, 20, "energr_for_CHG", 2, 1)}
      /\ Rows(RemoteMeterMsg, DEV_DCDC, 21, 2, <<"energr_for_DISCH">>) =
             {Row(4, 4, 21, "energr_for_DISCH", 2, 1)}
      /\ Meters(DEV_DCDC, 22, <<"env_temp", "fanSpeed">>) =
             {Row(4, 4, 22, "env_temp", 1, 1), Row(4, 4, 22, "fanSpeed", 1, 2)}
      /\ Meters(DEV_DCDC, 23, <<"heatsinkTemp1", "heatsinkTemp2", "heatsinkTemp3">>) =
             {Row(4, 4, 23, "heatsinkTemp1", 1, 1), Row(4, 4, 23, "heatsinkTemp2", 1, 2),
              Row(4, 4, 23, "heatsinkTemp3", 1, 3)}
      /\ Meters(DEV_DCDC, 24, <<"heatsinkTemp4", "heatsinkTemp5", "heatsinkTemp6">>) =
             {Row(4, 4, 24, "heatsinkTemp4", 1, 1), Row(4, 4, 24, "heatsinkTemp5", 1, 2),
              Row(4, 4, 24, "heatsinkTemp6", 1, 3)}
      /\ Meters(DEV_DCDC, 25, <<"heatsinkTemp7", "heatsinkTemp8", "heatsinkTemp9">>) =
             {Row(4, 4, 25, "heatsinkTemp7", 1, 1), Row(4, 4, 25, "heatsinkTemp8", 1, 2),
              Row(4, 4, 25, "heatsinkTemp9", 1, 3)}
    BY OneRow, TwoRows, ThreeRows DEF Signals, Meters, RemoteSignalMsg, RemoteMeterMsg, DEV_DCDC, DEV_BMS
<1>4. DcdcMeterRows = DcdcTable
    BY <1>3, ZenonT(30) DEF DcdcMeterRows, DcdcTable, VersionTable, PowerTable, HeatTable
<1>5. /\ Meters(DEV_BMS, 3, <<"bms_bat_totalvol">>) =
             {Row(4, 8, 3, "bms_bat_totalvol", 1, 1)}
      /\ Meters(DEV_BMS, 4, <<"bms_soc", "bms_soh", "bms_env_temp">>) =
             {Row(4, 8, 4, "bms_soc", 1, 1), Row(4, 8, 4, "bms_soh", 1, 2),
              Row(4, 8, 4, "bms_env_temp", 1, 3)}
      /\ Meters(DEV_BMS, 5, <<"bms_sigleMinVol", "bms_sigleMinVolNum">>) =
             {Row(4, 8, 5, "bms_sigleMinVol", 1, 1), Row(4, 8, 5, "bms_sigleMinVolNum", 1, 2)}
      /\ Meters(DEV_BMS, 6, <<"bms_sigleMaxVol", "bms_sigleMaxVolNum">>) =
             {Row(4, 8, 6, "bms_sigleMaxVol", 1, 1), Row(4, 8, 6, "bms_sigleMaxVolNum", 1, 2)}
      /\ Meters(DEV_BMS, 7, <<"bms_sigleMinTemp", "bms_sigleMinTempNum">>) =
             {Row(4, 8, 7, "bms_sigleMinTemp", 1, 1), Row(4, 8, 7, "bms_sigleMinTempNum", 1, 2)}
      /\ Meters(DEV_BMS, 8, <<"bms_sigleMaxTemp", "bms_sigleMaxTempNum">>) =
             {Row(4, 8, 8, "bms_sigleMaxTemp", 1, 1), Row(4, 8, 8, "bms_sigleMaxTempNum", 1, 2)}
      /\ Meters(DEV_BMS, 11, <<"bms_voldiff", "bms_tempdiff">>) =
             {Row(4, 8, 11, "bms_voldiff", 1, 1), Row(4, 8, 11, "bms_tempdiff", 1, 2)}
      /\ Meters(DEV_BMS, 12, <<"bms_chgVolLimit", "bms_dischgVolLimit">>) =
             {Row(4, 8, 12, "bms_chgVolLimit", 1, 1), Row(4, 8, 12, "bms_dischgVolLimit", 1, 2)}
      /\ Meters(DEV_BMS, 13, <<"bms_chgcurrentLimit", "bms_dischgcurrentLimit">>) =
             {Row(4, 8, 13, "bms_chgcurrentLimit", 1, 1), Row(4, 8, 13, "bms_dischgcurrentLimit", 1, 2)}
    BY OneRow, TwoRows, ThreeRows DEF Signals, Meters, RemoteSignalMsg, RemoteMeterMsg, DEV_DCDC, DEV_BMS
<1>6. [msg |-> <<RemoteMeterMsg, DEV_BMS, 3>>, field |-> "bms_bat_totalcur",
       width |-> 2, word |-> 2] = Row(4, 8, 3, "bms_bat_totalcur", 2, 2)
    BY Zenon DEF Row, RemoteMeterMsg, DEV_BMS
<1>7. BmsMeterRows = BmsTable
    BY <1>5, <1>6, ZenonT(60) DEF BmsMeterRows, BmsTable, BatteryTable, CellTable, LimitTable
<1> QED BY <1>2, <1>4, <1>7

\* The case of the voltage limits goes on to assign the current limits.
LEMMA FallThroughRows ==
    FallThrough = {Row(4, 8, 12, "bms_chgcurrentLimit", 1, 1),
                   Row(4, 8, 12, "bms_dischgcurrentLimit", 1, 2)}
BY TwoRows DEF FallThrough, Meters, RemoteMeterMsg, DEV_BMS

\* What is true of every row, and what tells the rows of the limits from the others.
SoundAs(msg, field, width, word) ==
    /\ word \in {1, 2, 3}
    /\ IF field \in Wide THEN width = 2 /\ word \in {1, 2} ELSE width = 1
    /\ field = "bms_chgVolLimit" => msg = <<4, 8, 12>> /\ word = 1
    /\ field = "bms_dischgVolLimit" => msg = <<4, 8, 12>> /\ word = 2
    /\ field = "bms_chgcurrentLimit" => msg = <<4, 8, 13>> /\ word = 1
    /\ field = "bms_dischgcurrentLimit" => msg = <<4, 8, 13>> /\ word = 2

Sound(row) == SoundAs(row.msg, row.field, row.width, row.word)

LEMMA SoundRow ==
    \A class, dev, par, field, width, word :
        SoundAs(<<class, dev, par>>, field, width, word)
            => Sound(Row(class, dev, par, field, width, word))
BY DEF Sound, Row

LEMMA LayoutSound == \A row \in Layout : Sound(row)
<1>1. \A row \in SignalTable : Sound(row)
    BY SoundRow DEF SignalTable, SoundAs, Wide
<1>2. \A row \in VersionTable : Sound(row)
    BY SoundRow DEF VersionTable, SoundAs, Wide
<1>3. \A row \in PowerTable : Sound(row)
    BY SoundRow DEF PowerTable, SoundAs, Wide
<1>4. \A row \in HeatTable : Sound(row)
    BY SoundRow DEF HeatTable, SoundAs, Wide
<1>5. \A row \in BatteryTable : Sound(row)
    BY SoundRow DEF BatteryTable, SoundAs, Wide
<1>6. \A row \in CellTable : Sound(row)
    BY SoundRow DEF CellTable, SoundAs, Wide
<1>7. \A row \in LimitTable : Sound(row)
    BY SoundRow DEF LimitTable, SoundAs, Wide
<1> QED
    BY <1>1, <1>2, <1>3, <1>4, <1>5, <1>6, <1>7, LayoutTable DEF Layout, DcdcTable, BmsTable

\* The rows of the limits are there.
LEMMA LimitRows ==
    /\ Row(4, 8, 12, "bms_chgVolLimit", 1, 1) \in Layout
    /\ Row(4, 8, 12, "bms_dischgVolLimit", 1, 2) \in Layout
    /\ Row(4, 8, 13, "bms_chgcurrentLimit", 1, 1) \in Layout
    /\ Row(4, 8, 13, "bms_dischgcurrentLimit", 1, 2) \in Layout
BY LayoutTable, Zenon DEF Layout, BmsTable, LimitTable

Limits == {"bms_chgVolLimit", "bms_dischgVolLimit",
           "bms_chgcurrentLimit", "bms_dischgcurrentLimit"}

\* Which members are of which type.
LEMMA FieldKinds ==
    /\ Unsigned \cap Wide = {}
    /\ Limits \cap (Unsigned \cup Wide) = {}
    /\ Limits \subseteq Fields
    /\ "dcdc_state1" \in Fields \cap Unsigned
<1>1. \A f \in {row.field : row \in SignalRows} :
          f \in {"dcdc_state1", "dcdc_alarm1", "dcdc_fault1", "dcdc_fault2", "bms_state1",
                 "bms_alarm1", "bms_protect1", "bms_fault1"}
    BY LayoutTable DEF SignalTable, Row
<1>2. \A f \in Unsigned : f \notin Wide /\ f \notin Limits
    BY <1>1 DEF Unsigned, Wide, Limits
<1>3. Limits \cap Wide = {}
    BY DEF Limits, Wide
<1>4. Limits \subseteq Fields
    BY LimitRows DEF Limits, Fields, Row
<1>5. "dcdc_state1" \in Fields \cap Unsigned
    <2>1. Row(3, 4, 2, "dcdc_state1", 1, 1) \in SignalRows
        BY LayoutTable, Zenon DEF SignalTable
    <2>2. Row(3, 4, 2, "dcdc_state1", 1, 1).field = "dcdc_state1"
        BY DEF Row
    <2> QED BY <2>1, <2>2, Zenon DEF Fields, Layout, Unsigned
<1> QED BY <1>2, <1>3, <1>4, <1>5

LEMMA OneOfThem ==
    ASSUME NEW S, S # {}
    PROVE  OneOf(S) \in S
BY DEF OneOf

-----------------------------------------------------------------------------
(* Reading a row of a report. *)

Pairs == (0 .. 255) \X (0 .. 255)

\* The words of a row are among the three of a report.
InReport(row) ==
    /\ row.word \in {1, 2, 3}
    /\ IF row.field \in Wide THEN row.width = 2 /\ row.word \in {1, 2} ELSE row.width = 1

LEMMA RowsInReport ==
    /\ \A row : Sound(row) => InReport(row)
    /\ \A row \in FallThrough : InReport(row)
<1>1. \A row : Sound(row) => InReport(row)
    BY DEF Sound, SoundAs, InReport
<1>2. \A row \in FallThrough : InReport(row)
    BY FallThroughRows DEF Row, InReport, Wide
<1> QED BY <1>1, <1>2

LEMMA WordsRead ==
    ASSUME NEW row, InReport(row), NEW data \in [1 .. 3 -> Pairs]
    PROVE  LET words == RowWords(row, data)
           IN /\ words[1] \in Pairs /\ words[1] = data[row.word]
              /\ row.field \in Wide => words[2] \in Pairs
<1> DEFINE m == row.word
           n == row.word + row.width - 1
           words == SubSeq(data, m, n)
<1>1. /\ m \in 1 .. 3 /\ n \in Int /\ m <= n /\ n <= 3
      /\ row.field \in Wide => n = m + 1
    BY DEF InReport
<1> HIDE DEF m, n
<1>2. \A i \in m .. n : data[i] \in Pairs
    BY <1>1
<1>3. \A i \in 1 .. n - m + 1 : words[i] = data[m + i - 1]
    BY <1>1, <1>2, SubSeqProperties
<1> HIDE DEF words
<1>4. words[1] = data[m]
    <2>1. 1 \in 1 .. n - m + 1 /\ m + 1 - 1 = m
        BY <1>1
    <2> QED BY <1>3, <2>1
<1>5. ASSUME row.field \in Wide
      PROVE  words[2] = data[m + 1] /\ m + 1 \in 1 .. 3
    <2>1. 2 \in 1 .. n - m + 1 /\ m + 2 - 1 = m + 1 /\ m + 1 \in 1 .. 3
        BY <1>1, <1>5
    <2> QED BY <1>3, <2>1
<1>6. words[1] \in Pairs /\ (row.field \in Wide => words[2] \in Pairs)
    BY <1>1, <1>4, <1>5
<1> QED BY <1>4, <1>6 DEF words, m, n, RowWords

\* The byte swap and the assignment to a member make of a report what its sender means,
\* and a value of the member's type.
LEMMA StoreMeans ==
    ASSUME NEW f \in Fields, NEW words, words[1] \in Pairs, f \in Wide => words[2] \in Pairs
    PROVE  /\ Store(f, words) = Meaning(f, words)
           /\ IF f \in Wide THEN Store(f, words) \in Int
              ELSE Store(f, words) \in IF f \in Unsigned THEN UInt16 ELSE Int16
<1> DEFINE high == words[1]
           low == words[2]
           w == Word16(high)
           s == Signed16(high)
<1>1. w \in UInt16 /\ s \in Int16 /\ (s = IF w < 32768 THEN w ELSE w - 65536)
    <2>1. high \in (0 .. 255) \X (0 .. 255)
        BY DEF Pairs
    <2> HIDE DEF high
    <2> QED BY <2>1, WordInRange, SignOfWord
<1>2. f \in Unsigned => f \notin Wide
    BY FieldKinds
<1>3. CASE f \in Unsigned
    <2>1. Store(f, words) = w /\ Meaning(f, words) = w
        BY <1>2, <1>3, SMT DEF Store, Meaning, Swapped
    <2> QED BY <1>1, <1>2, <1>3, <2>1
<1>4. CASE f \in Wide
    <2> DEFINE v == Word16(low)
    <2>1. v \in UInt16
        BY <1>4, WordInRange DEF Pairs
    <2>2. Store(f, words) = (s * 65536) + v /\ Meaning(f, words) = (s * 65536) + v
        BY <1>1, <1>2, <1>4, SMT DEF Store, Meaning, Swapped, Signed32
    <2> HIDE DEF s, v
    <2>3. (s * 65536) + v \in Int
        BY <1>1, <2>1, SMT DEF UInt16, Int16
    <2> QED BY <1>4, <2>2, <2>3
<1>5. CASE f \notin Unsigned /\ f \notin Wide
    <2>1. Store(f, words) = s /\ Meaning(f, words) = s
        BY <1>1, <1>5, SMT DEF Store, Meaning, Swapped
    <2> QED BY <1>1, <1>5, <2>1
<1> QED BY <1>3, <1>4, <1>5

-----------------------------------------------------------------------------
(* What a report does to the mirror and to what was told. *)

Here(msg, f) == {row \in Case(msg) : row.field = f}
Said(msg, f) == {row \in Layout : row.msg = msg /\ row.field = f}

\* The class, device and parameter of a report select their own case.
LEMMA Selected ==
    ASSUME NEW msg \in Reported, NEW data
    PROVE  LET frame == Frame(msg, data)
               id == UnpackId(frame.can_id)
           IN <<id.msg_class, id.src_device, frame.par>> = msg /\ frame.data = data
<1> DEFINE fields == [msg_class |-> msg[1], broadcast |-> 0, src_device |-> msg[2],
                      src_id |-> 1, group_num |-> 0, des_device |-> DEV_MONITOR,
                      des_id |-> 0]
<1>1. msg[1] \in 1 .. 5 /\ msg[2] \in 0 .. 15 /\ msg = <<msg[1], msg[2], msg[3]>>
    BY MirrorAssumption
<1>2. Fitting(fields) /\ fields.msg_class = msg[1] /\ fields.src_device = msg[2]
    BY <1>1 DEF Fitting, DEV_MONITOR
<1>3. /\ Frame(msg, data).can_id = PackId(fields)
      /\ Frame(msg, data).par = msg[3] /\ Frame(msg, data).data = data
    BY DEF Frame
<1>4. {"msg_class", "src_device"} \subseteq DOMAIN BitFields
    BY DEF BitFields
<1> HIDE DEF fields
<1> QED BY <1>1, <1>2, <1>3, <1>4, IdentifierKept

LEMMA ReportEffect ==
    ASSUME NEW msg \in Reported, NEW data \in Samples, Report(msg, data), NEW f \in Fields
    PROVE  /\ mirror'[f] = IF Here(msg, f) # {}
                           THEN Store(f, RowWords(OneOf(Here(msg, f)), data))
                           ELSE mirror[f]
           /\ told'[f] = IF Said(msg, f) # {}
                         THEN Meaning(f, RowWords(OneOf(Said(msg, f)), data))
                         ELSE told[f]
<1>1. mirror' = [g \in Fields |->
                     IF Here(msg, g) # {} THEN Store(g, RowWords(OneOf(Here(msg, g)), data))
                     ELSE mirror[g]]
    BY Selected, Zenon DEF Report, Parse, Here
<1>2. told' = [g \in Fields |->
                   IF Said(msg, g) # {} THEN Meaning(g, RowWords(OneOf(Said(msg, g)), data))
                   ELSE told[g]]
    BY Zenon DEF Report, Said
<1> QED BY <1>1, <1>2

\* Only the case of the voltage limits has more rows than the message's own, and those
\* are of the current limits.
LEMMA OwnRows ==
    ASSUME NEW msg, NEW f, f \notin CurrentLimits \/ msg # <<4, 8, 12>>
    PROVE  Here(msg, f) = Said(msg, f)
<1>1. \A row \in FallThrough : row.msg = <<4, 8, 12>> /\ row.field \in CurrentLimits
    BY FallThroughRows DEF Row, CurrentLimits
<1> QED BY <1>1 DEF Here, Said, Case

LEMMA SaidSound ==
    ASSUME NEW msg, NEW f, Said(msg, f) # {}
    PROVE  /\ OneOf(Said(msg, f)) \in Layout /\ OneOf(Said(msg, f)).field = f
           /\ OneOf(Said(msg, f)).msg = msg /\ Sound(OneOf(Said(msg, f)))
BY OneOfThem, LayoutSound DEF Said

\* A member that a report does not change is left, and any other becomes what it said.
LEMMA Followed ==
    ASSUME NEW msg \in Reported, NEW data \in Samples, Report(msg, data), NEW f \in Fields,
           f \notin CurrentLimits \/ msg # <<4, 8, 12>>
    PROVE  IF Said(msg, f) # {} THEN mirror'[f] = told'[f]
           ELSE mirror'[f] = mirror[f] /\ told'[f] = told[f]
<1> DEFINE said == OneOf(Said(msg, f))
           words == RowWords(said, data)
<1>1. CASE Said(msg, f) # {}
    <2>1. InReport(said) /\ said.field = f
        BY <1>1, SaidSound, RowsInReport
    <2>2. data \in [1 .. 3 -> Pairs]
        BY MirrorAssumption DEF Pairs
    <2> HIDE DEF said
    <2>3. words[1] \in Pairs /\ (f \in Wide => words[2] \in Pairs)
        BY <2>1, <2>2, WordsRead
    <2> HIDE DEF words
    <2>4. Store(f, words) = Meaning(f, words)
        BY <2>3, StoreMeans
    <2>5. mirror'[f] = Store(f, words) /\ told'[f] = Meaning(f, words)
        BY <1>1, ReportEffect, OwnRows, Zenon DEF said, words
    <2> QED BY <1>1, <2>4, <2>5
<1>2. CASE Said(msg, f) = {}
    BY <1>2, ReportEffect, OwnRows
<1> QED BY <1>1, <1>2

-----------------------------------------------------------------------------
(* The invariants. *)

LEMMA TypeStep ==
    ASSUME TypeOK, NEW msg \in Reported, NEW data \in Samples, Report(msg, data)
    PROVE  TypeOK'
<1> SUFFICES ASSUME NEW f \in Fields
             PROVE  IF f \in Wide THEN mirror'[f] \in Int
                    ELSE mirror'[f] \in IF f \in Unsigned THEN UInt16 ELSE Int16
    BY DEF TypeOK
<1> DEFINE here == OneOf(Here(msg, f))
           words == RowWords(here, data)
<1>1. CASE Here(msg, f) # {}
    <2>1. here \in Here(msg, f)
        BY <1>1, OneOfThem
    <2>2. here.field = f /\ InReport(here)
        BY <2>1, LayoutSound, RowsInReport DEF Here, Case
    <2>3. data \in [1 .. 3 -> Pairs]
        BY MirrorAssumption DEF Pairs
    <2> HIDE DEF here
    <2>4. words[1] \in Pairs /\ (f \in Wide => words[2] \in Pairs)
        BY <2>2, <2>3, WordsRead
    <2>5. mirror'[f] = Store(f, words)
        BY <1>1, ReportEffect, Zenon DEF here
    <2> HIDE DEF words
    <2> QED BY <2>4, <2>5, StoreMeans
<1>2. CASE Here(msg, f) = {}
    <2>1. mirror'[f] = mirror[f]
        BY <1>2, ReportEffect
    <2> QED BY <2>1 DEF TypeOK
<1> QED BY <1>1, <1>2

\* Every member always holds a value of its type, for all messages and reports.
THEOREM TypeCorrect == MirrorSpec => []TypeOK
<1>1. MirrorInit => TypeOK
    BY DEF MirrorInit, TypeOK, UInt16, Int16
<1>2. TypeOK /\ [MirrorNext]_mirrorVars => TypeOK'
    <2>1. CASE MirrorNext
        BY <2>1, TypeStep DEF MirrorNext
    <2>2. CASE UNCHANGED mirrorVars
        BY <2>2 DEF mirrorVars, TypeOK
    <2> QED BY <2>1, <2>2
<1> QED BY <1>1, <1>2, PTL DEF MirrorSpec

\* All members but the current limits, which another message's case changes too.
AsTold == \A f \in Fields \ CurrentLimits : mirror[f] = told[f]

LEMMA AsToldAlways == MirrorSpec => []AsTold
<1>1. MirrorInit => AsTold
    BY DEF MirrorInit, AsTold
<1>2. AsTold /\ [MirrorNext]_mirrorVars => AsTold'
    <2>1. ASSUME AsTold, NEW msg \in Reported, NEW data \in Samples, Report(msg, data),
                 NEW f \in Fields \ CurrentLimits
          PROVE  mirror'[f] = told'[f]
        BY <2>1, Followed DEF AsTold
    <2>2. AsTold /\ MirrorNext => AsTold'
        BY <2>1 DEF AsTold, MirrorNext
    <2>3. AsTold /\ UNCHANGED mirrorVars => AsTold'
        BY DEF mirrorVars, AsTold
    <2> QED BY <2>2, <2>3
<1> QED BY <1>1, <1>2, PTL DEF MirrorSpec

\* Bit 2 of a word, as C's shift and mask read it and as its residue shows it.
LEMMA BitTwo ==
    ASSUME NEW n \in Nat
    PROVE  (n \div 4) % 2 = 1 <=> n % 8 >= 4
BY SMT

LEMMA FaithfulToTold == TypeOK /\ AsTold => Faithful
<1> SUFFICES ASSUME TypeOK, AsTold
             PROVE  Faithful
    OBVIOUS
<1> DEFINE n == mirror["dcdc_state1"]
<1>1. "dcdc_state1" \in Fields \ CurrentLimits /\ "dcdc_state1" \in Unsigned
      /\ "dcdc_state1" \notin Wide
    BY FieldKinds DEF CurrentLimits
<1>2. n \in Nat
    <2>1. n \in UInt16
        BY <1>1, Zenon DEF TypeOK
    <2> QED BY <2>1 DEF UInt16
<1>3. n = told["dcdc_state1"]
    BY <1>1 DEF AsTold
<1> HIDE DEF n
<1>4. (n \div 4) % 2 = 1 <=> n % 8 >= 4
    BY <1>2, BitTwo
<1> QED BY <1>3, <1>4 DEF Faithful, AsTold, RunningFlag, n

\* After any reports, each member is what was last said of it, for all messages and data.
THEOREM MirrorFaithful == MirrorSpec => []Faithful
BY TypeCorrect, AsToldAlways, FaithfulToTold, PTL

-----------------------------------------------------------------------------
(* The current limits and the case that falls through. *)

\* The two current limits are a pair that one message carried: the current limits
\* last reported, or the voltage limits last reported, whose case falls through.
LimitsOfOneMessage ==
    LET pair(m, f, g) == <<m[f], m[g]>>
    IN pair(mirror, "bms_chgcurrentLimit", "bms_dischgcurrentLimit") \in
           {pair(told, "bms_chgcurrentLimit", "bms_dischgcurrentLimit"),
            pair(told, "bms_chgVolLimit", "bms_dischgVolLimit")}

\* What the two messages of limits say, and that no other message says it.
LEMMA SaidLimits ==
    ASSUME NEW msg, NEW f \in Limits
    PROVE  /\ f \in CurrentLimits => (Said(msg, f) # {} <=> msg = <<4, 8, 13>>)
           /\ f \notin CurrentLimits => (Said(msg, f) # {} <=> msg = <<4, 8, 12>>)
<1>1. Said(msg, f) # {} => IF f \in CurrentLimits THEN msg = <<4, 8, 13>> ELSE msg = <<4, 8, 12>>
    BY SaidSound DEF Limits, CurrentLimits, Sound, SoundAs
<1>2. /\ Row(4, 8, 12, "bms_chgVolLimit", 1, 1) \in Said(<<4, 8, 12>>, "bms_chgVolLimit")
      /\ Row(4, 8, 12, "bms_dischgVolLimit", 1, 2) \in Said(<<4, 8, 12>>, "bms_dischgVolLimit")
      /\ Row(4, 8, 13, "bms_chgcurrentLimit", 1, 1)
             \in Said(<<4, 8, 13>>, "bms_chgcurrentLimit")
      /\ Row(4, 8, 13, "bms_dischgcurrentLimit", 1, 2)
             \in Said(<<4, 8, 13>>, "bms_dischgcurrentLimit")
    BY LimitRows DEF Said, Row
<1> QED BY <1>1, <1>2 DEF Limits, CurrentLimits

\* A limit is a 16-bit value with a sign.
LEMMA LimitMeaning ==
    ASSUME NEW f \in Limits, NEW words
    PROVE  Meaning(f, words) = Signed16(words[1])
BY FieldKinds DEF Meaning

\* The report of the voltage limits makes the current limits the same pair.
LEMMA FallsThrough ==
    ASSUME <<4, 8, 12>> \in Reported, NEW data \in Samples, Report(<<4, 8, 12>>, data),
           NEW f, NEW g,
           \/ f = "bms_chgcurrentLimit" /\ g = "bms_chgVolLimit"
           \/ f = "bms_dischgcurrentLimit" /\ g = "bms_dischgVolLimit"
    PROVE  mirror'[f] = told'[g]
<1> DEFINE m == <<4, 8, 12>>
           place == IF f = "bms_chgcurrentLimit" THEN 1 ELSE 2
           here == OneOf(Here(m, f))
           said == OneOf(Said(m, g))
<1>1. /\ f \in Limits /\ g \in Limits /\ f \in CurrentLimits /\ g \notin CurrentLimits
      /\ f \in Fields /\ g \in Fields
    BY FieldKinds DEF Limits, CurrentLimits
<1>2. data \in [1 .. 3 -> Pairs] /\ place \in 1 .. 3
    BY MirrorAssumption DEF Pairs
<1>3. Here(m, f) # {} /\ InReport(here) /\ here.word = place /\ here.field = f
    <2>1. \A row \in Here(m, f) : row \in FallThrough
        <3>1. \A row \in Layout : row.field = f => row.msg = <<4, 8, 13>>
            BY LayoutSound DEF Sound, SoundAs
        <3> QED BY <3>1 DEF Here, Case
    <2>2. \A row \in FallThrough : row.field = f => row.word = place
        BY FallThroughRows DEF Row
    <2>3. Here(m, f) # {}
        <3>1. /\ Row(4, 8, 12, "bms_chgcurrentLimit", 1, 1) \in Here(m, "bms_chgcurrentLimit")
              /\ Row(4, 8, 12, "bms_dischgcurrentLimit", 1, 2)
                     \in Here(m, "bms_dischgcurrentLimit")
            BY FallThroughRows DEF Here, Case, Row
        <3> QED BY <3>1
    <2>4. here \in Here(m, f)
        BY <2>3, OneOfThem
    <2>5. here.field = f
        BY <2>4 DEF Here
    <2> HIDE DEF here
    <2> QED BY <2>1, <2>2, <2>3, <2>4, <2>5, RowsInReport
<1>4. Said(m, g) # {} /\ InReport(said) /\ said.word = place
    <2>1. Said(m, g) # {}
        BY <1>1, SaidLimits
    <2>2. Sound(said) /\ said.field = g
        BY <2>1, SaidSound
    <2> HIDE DEF said
    <2>3. said.word = place
        BY <2>2 DEF Sound, SoundAs
    <2> QED BY <2>1, <2>2, <2>3, RowsInReport
<1>5. /\ mirror'[f] = Store(f, RowWords(here, data))
      /\ told'[g] = Meaning(g, RowWords(said, data))
    BY <1>1, <1>3, <1>4, ReportEffect, Zenon
<1> HIDE DEF here, said, place
<1>6. RowWords(here, data)[1] = data[place] /\ RowWords(here, data)[1] \in Pairs
    BY <1>2, <1>3, WordsRead
<1>7. RowWords(said, data)[1] = data[place]
    BY <1>2, <1>4, WordsRead
<1>8. f \notin Wide
    BY <1>1, FieldKinds
<1>9. Store(f, RowWords(here, data)) = Meaning(f, RowWords(here, data))
    BY <1>1, <1>6, <1>8, StoreMeans
<1> QED BY <1>1, <1>5, <1>6, <1>7, <1>9, LimitMeaning

LEMMA LimitsStep ==
    ASSUME LimitsOfOneMessage, NEW msg \in Reported, NEW data \in Samples, Report(msg, data)
    PROVE  LimitsOfOneMessage'
<1>1. Limits \subseteq Fields /\ CurrentLimits \subseteq Limits
    BY FieldKinds DEF Limits, CurrentLimits
<1>2. CASE msg = <<4, 8, 12>>
    <2>1. /\ mirror'["bms_chgcurrentLimit"] = told'["bms_chgVolLimit"]
          /\ mirror'["bms_dischgcurrentLimit"] = told'["bms_dischgVolLimit"]
        BY <1>2, FallsThrough
    <2> QED BY <2>1 DEF LimitsOfOneMessage
<1>3. CASE msg = <<4, 8, 13>>
    <2>1. \A f \in CurrentLimits : Said(msg, f) # {}
        BY <1>1, <1>3, SaidLimits
    <2>2. msg # <<4, 8, 12>>
        BY <1>3
    <2>3. \A f \in CurrentLimits : mirror'[f] = told'[f]
        BY <1>1, <2>1, <2>2, Followed
    <2> QED BY <2>3 DEF LimitsOfOneMessage, CurrentLimits
<1>4. CASE msg # <<4, 8, 12>> /\ msg # <<4, 8, 13>>
    <2>1. \A f \in Limits : Said(msg, f) = {}
        BY <1>4, SaidLimits
    <2>2. \A f \in Limits : mirror'[f] = mirror[f] /\ told'[f] = told[f]
        BY <1>1, <1>4, <2>1, Followed
    <2> QED BY <2>2 DEF LimitsOfOneMessage, Limits
<1> QED BY <1>2, <1>3, <1>4

\* What the missing break can do: the current limits are always a pair that one message
\* carried, the current limits last reported or the voltage limits last reported.
THEOREM LimitsTogether == MirrorSpec => []LimitsOfOneMessage
<1>1. MirrorInit => LimitsOfOneMessage
    BY FieldKinds DEF MirrorInit, LimitsOfOneMessage, Limits
<1>2. LimitsOfOneMessage /\ [MirrorNext]_mirrorVars => LimitsOfOneMessage'
    <2>1. CASE MirrorNext
        BY <2>1, LimitsStep DEF MirrorNext
    <2>2. CASE UNCHANGED mirrorVars
        BY <2>2 DEF mirrorVars, LimitsOfOneMessage
    <2> QED BY <2>1, <2>2
<1> QED BY <1>1, <1>2, PTL DEF MirrorSpec
=============================================================================
