---------------------------- MODULE DeviceMirror ----------------------------
(***************************************************************************)
(* fml_can_device.c: the gateway's picture of the converter and of its     *)
(* battery, g_dc_can_data, kept up to date by the frames that come in over *)
(* TCP.  The device is not part of the repository: it is whoever reports   *)
(* values, as 16-bit words with the high byte first.  Frames arrive whole  *)
(* here; what a short read does to them is GatewayClient's.                *)
(***************************************************************************)
EXTENDS CanFrame

CONSTANTS
    Reported,    \* the messages that arrive, <<class, device, parameter>>
    Samples      \* the contents of reports: three words, of two bytes each

ASSUME MirrorAssumption ==
    /\ Reported \subseteq (1 .. 5) \X (0 .. 15) \X (0 .. 255)
    /\ Samples \subseteq [1 .. 3 -> (0 .. 255) \X (0 .. 255)]

VARIABLES
    mirror,      \* g_dc_can_data
    told         \* history: what the last report of each field said

mirrorVars == <<mirror, told>>

-----------------------------------------------------------------------------
(* The messages: which parameter of which device carries which fields.      *)

\* A row says that a message holds a field in its word number `word`.
Rows(class, dev, par, width, fields) ==
    {[msg |-> <<class, dev, par>>, field |-> fields[i], width |-> width, word |-> i] :
        i \in DOMAIN fields}

Signals(dev, par, fields) == Rows(RemoteSignalMsg, dev, par, 1, fields)
Meters(dev, par, fields) == Rows(RemoteMeterMsg, dev, par, 1, fields)

SignalRows ==
    Signals(DEV_DCDC, 2, <<"dcdc_state1">>)
    \cup Signals(DEV_DCDC, 3, <<"dcdc_alarm1">>)
    \cup Signals(DEV_DCDC, 4, <<"dcdc_fault1", "dcdc_fault2">>)
    \cup Signals(DEV_BMS, 1, <<"bms_state1">>)
    \cup Signals(DEV_BMS, 2, <<"bms_alarm1">>)
    \cup Signals(DEV_BMS, 3, <<"bms_protect1">>)
    \cup Signals(DEV_BMS, 4, <<"bms_fault1">>)

DcdcMeterRows ==
    Meters(DEV_DCDC, 2, <<"u16Pversion", "u16Sversion", "u16Vversion">>)
    \cup Meters(DEV_DCDC, 3, <<"u16Aversion", "u16Dversion", "u16HardWare_Version">>)
    \cup Meters(DEV_DCDC, 5, <<"heartbeat">>)
    \cup Meters(DEV_DCDC, 16, <<"bat_voltage", "bat_current", "bat_power">>)
    \cup Meters(DEV_DCDC, 17, <<"bus_voltage", "bus_current", "bus_power">>)
    \cup Rows(RemoteMeterMsg, DEV_DCDC, 20, 2, <<"energr_for_CHG">>)
    \cup Rows(RemoteMeterMsg, DEV_DCDC, 21, 2, <<"energr_for_DISCH">>)
    \cup Meters(DEV_DCDC, 22, <<"env_temp", "fanSpeed">>)
    \cup Meters(DEV_DCDC, 23, <<"heatsinkTemp1", "heatsinkTemp2", "heatsinkTemp3">>)
    \cup Meters(DEV_DCDC, 24, <<"heatsinkTemp4", "heatsinkTemp5", "heatsinkTemp6">>)
    \cup Meters(DEV_DCDC, 25, <<"heatsinkTemp7", "heatsinkTemp8", "heatsinkTemp9">>)

BmsMeterRows ==
    Meters(DEV_BMS, 3, <<"bms_bat_totalvol">>)
    \cup {[msg |-> <<RemoteMeterMsg, DEV_BMS, 3>>, field |-> "bms_bat_totalcur",
           width |-> 2, word |-> 2]}
    \cup Meters(DEV_BMS, 4, <<"bms_soc", "bms_soh", "bms_env_temp">>)
    \cup Meters(DEV_BMS, 5, <<"bms_sigleMinVol", "bms_sigleMinVolNum">>)
    \cup Meters(DEV_BMS, 6, <<"bms_sigleMaxVol", "bms_sigleMaxVolNum">>)
    \cup Meters(DEV_BMS, 7, <<"bms_sigleMinTemp", "bms_sigleMinTempNum">>)
    \cup Meters(DEV_BMS, 8, <<"bms_sigleMaxTemp", "bms_sigleMaxTempNum">>)
    \cup Meters(DEV_BMS, 11, <<"bms_voldiff", "bms_tempdiff">>)
    \cup Meters(DEV_BMS, 12, <<"bms_chgVolLimit", "bms_dischgVolLimit">>)
    \cup Meters(DEV_BMS, 13, <<"bms_chgcurrentLimit", "bms_dischgcurrentLimit">>)

Layout == SignalRows \cup DcdcMeterRows \cup BmsMeterRows

\* The case of the voltage limits has no break: that of the current limits follows.
FallThrough ==
    Meters(DEV_BMS, 12, <<"bms_chgcurrentLimit", "bms_dischgcurrentLimit">>)

Fields == {row.field : row \in Layout}
CurrentLimits == {"bms_chgcurrentLimit", "bms_dischgcurrentLimit"}

\* The members of DEV_DCDC_CanDataT that are uint16_t and int32_t; the rest are int16_t.
Unsigned ==
    {row.field : row \in SignalRows}
    \cup {"u16Pversion", "u16Sversion", "u16Vversion", "u16Aversion", "u16Dversion",
          "u16HardWare_Version", "heartbeat"}
Wide == {"energr_for_CHG", "energr_for_DISCH", "bms_bat_totalcur"}

\* Slip: every member that is not wide taken for an unsigned one.
StoreUnsigned(field, words) ==
    IF field \in Wide THEN Signed32(words[1], words[2]) ELSE Word16(words[1])

\* bswap_16 on a little-endian machine, and (b[0] << 8) | b[1]
Swapped(b) == Word16(b)

\* What the assignment to a member makes of one word, or of two for a wide one.
Store(field, words) ==
    LET w == Swapped(words[1])
        signed == IF w < 32768 THEN w ELSE w - 65536
    IN CASE field \in Unsigned -> w
         [] field \in Wide     -> (signed * 65536) + Swapped(words[2])
         [] OTHER              -> signed

\* Slip: the device that sent the message is not looked at.
CaseAnyDevice(msg) ==
    {row \in Layout \cup FallThrough : row.msg[1] = msg[1] /\ row.msg[3] = msg[3]}

\* The rows of the case a message selects, by class, device and parameter.
Case(msg) == {row \in Layout \cup FallThrough : row.msg = msg}

RowWords(row, data) == SubSeq(data, row.word, row.word + row.width - 1)

\* No message holds a field twice: the one row there is.
OneOf(rows) == CHOOSE row \in rows : TRUE

\* can_device_msg_parse
Parse(old, frame) ==
    LET id == UnpackId(frame.can_id)
        msg == <<id.msg_class, id.src_device, frame.par>>
        of(f) == {row \in Case(msg) : row.field = f}
    IN [f \in Fields |->
           IF of(f) # {} THEN Store(f, RowWords(OneOf(of(f)), frame.data)) ELSE old[f]]

\* ll_es_can_get_runningflag, which reads the mirror: bit 2 of the converter's state.
RunningFlag == (mirror["dcdc_state1"] \div 4) % 2 = 1

-----------------------------------------------------------------------------
\* main.c defines g_dc_can_data without an initializer.
MirrorInit ==
    /\ mirror = [f \in Fields |-> 0]
    /\ told = [f \in Fields |-> 0]

Frame(msg, data) ==
    [can_id |-> PackId([msg_class |-> msg[1], broadcast |-> 0, src_device |-> msg[2],
                        src_id |-> 1, group_num |-> 0, des_device |-> DEV_MONITOR,
                        des_id |-> 0]),
     par    |-> msg[3],
     data   |-> data]

\* What the words of a report mean to the one who sends it.
Meaning(field, words) ==
    CASE field \in Unsigned -> Word16(words[1])
      [] field \in Wide     -> Signed32(words[1], words[2])
      [] OTHER              -> Signed16(words[1])

\* A frame of the device is read and parsed.
Report(msg, data) ==
    LET of(f) == {row \in Layout : row.msg = msg /\ row.field = f}
    IN /\ mirror' = Parse(mirror, Frame(msg, data))
       /\ told' = [f \in Fields |->
                       IF of(f) # {} THEN Meaning(f, RowWords(OneOf(of(f)), data))
                       ELSE told[f]]

MirrorNext == \E msg \in Reported : \E data \in Samples : Report(msg, data)

MirrorSpec == MirrorInit /\ [][MirrorNext]_mirrorVars

-----------------------------------------------------------------------------
\* Every member holds a value of its type.
TypeOK ==
    \A f \in Fields :
        IF f \in Wide THEN mirror[f] \in Int
        ELSE mirror[f] \in IF f \in Unsigned THEN UInt16 ELSE Int16

\* After any sequence of messages every member but the two current limits is what
\* the device last reported for it, its sign included; answers to commands, and
\* messages of other devices or parameters, leave all of them alone.  So the running
\* flag is the one of the converter's last state report.
Faithful ==
    /\ \A f \in Fields \ CurrentLimits : mirror[f] = told[f]
    /\ RunningFlag <=> told["dcdc_state1"] % 8 >= 4

\* The two current limits are what the device last reported as its current limits.
LimitsReported == \A f \in CurrentLimits : mirror[f] = told[f]
=============================================================================
