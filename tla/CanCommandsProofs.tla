-------------------------- MODULE CanCommandsProofs --------------------------
(***************************************************************************)
(* The converter's commands, for all arguments they can be given and a     *)
(* ring of any size; and the differences of times, for all times.          *)
(***************************************************************************)
EXTENDS CanCommands, CanTime, CanFrameProofs, SequenceTheorems

Names == {"power_onoff", "faultclear", "onoffgrid", "offgird_vset", "enable_dcmodule",
          "enable_bmsmodule", "bat_CHG_vset", "max_CHG_current", "max_DISCH_current",
          "uplimited_vset", "downlimited_vset", "dc_power", "eod", "ongrid_dod",
          "offgrid_dod", "set_sys_state", "sync"}

LEMMA CommandNames == DOMAIN Commands = Names
BY DEF Commands, Names

\* The table, row by row: what fits the bit-fields, and what tells commands apart.
LEMMA CommandTable ==
    /\ \A c \in Names :
          /\ Commands[c].msg_class \in 0 .. 127 /\ Commands[c].broadcast \in 0 .. 1
          /\ Commands[c].des_device \in 0 .. 15 /\ Commands[c].des_id \in 0 .. 63
          /\ Commands[c].par \in 0 .. 255
    /\ \A c, d \in Names :
          Commands[c].msg_class = Commands[d].msg_class /\ Commands[c].par = Commands[d].par
              => c = d
<1>1. /\ Commands["power_onoff"] = Cmd(1, 4, 1, 1)
      /\ Commands["faultclear"] = Cmd(1, 4, 0, 2)
      /\ Commands["onoffgrid"] = Cmd(1, 0, 0, 3)
      /\ Commands["offgird_vset"] = Cmd(2, 4, 1, 5)
      /\ Commands["enable_dcmodule"] = Cmd(2, 4, 1, 7)
      /\ Commands["enable_bmsmodule"] = Cmd(2, 4, 1, 11)
      /\ Commands["bat_CHG_vset"] = Cmd(2, 4, 1, 112)
      /\ Commands["max_CHG_current"] = Cmd(2, 4, 1, 113)
      /\ Commands["max_DISCH_current"] = Cmd(2, 4, 1, 114)
      /\ Commands["uplimited_vset"] = Cmd(2, 4, 1, 115)
      /\ Commands["downlimited_vset"] = Cmd(2, 4, 1, 116)
      /\ Commands["dc_power"] = Cmd(2, 4, 1, 117)
      /\ Commands["eod"] = Cmd(2, 4, 1, 118)
      /\ Commands["ongrid_dod"] = Cmd(2, 4, 1, 119)
      /\ Commands["offgrid_dod"] = Cmd(2, 4, 1, 120)
      /\ Commands["set_sys_state"] = Cmd(2, 4, 1, 131)
      /\ Commands["sync"] = [Cmd(2, 0, 0, 1) EXCEPT !.broadcast = 1]
    BY DEF Commands, RemoteControlMsg, RemoteSetupMsg, DEV_DCDC, DEV_ALL
<1> DEFINE row(c, class, b, device, id, par) ==
               Commands[c] = [msg_class |-> class, broadcast |-> b, des_device |-> device,
                              des_id |-> id, par |-> par]
<1>2. /\ row("power_onoff", 1, 0, 4, 1, 1) /\ row("faultclear", 1, 0, 4, 0, 2)
      /\ row("onoffgrid", 1, 0, 0, 0, 3) /\ row("offgird_vset", 2, 0, 4, 1, 5)
      /\ row("enable_dcmodule", 2, 0, 4, 1, 7) /\ row("enable_bmsmodule", 2, 0, 4, 1, 11)
      /\ row("bat_CHG_vset", 2, 0, 4, 1, 112) /\ row("max_CHG_current", 2, 0, 4, 1, 113)
      /\ row("max_DISCH_current", 2, 0, 4, 1, 114) /\ row("uplimited_vset", 2, 0, 4, 1, 115)
      /\ row("downlimited_vset", 2, 0, 4, 1, 116) /\ row("dc_power", 2, 0, 4, 1, 117)
      /\ row("eod", 2, 0, 4, 1, 118) /\ row("ongrid_dod", 2, 0, 4, 1, 119)
      /\ row("offgrid_dod", 2, 0, 4, 1, 120) /\ row("set_sys_state", 2, 0, 4, 1, 131)
      /\ row("sync", 2, 1, 0, 0, 1)
    BY <1>1 DEF Cmd
<1>3. ASSUME NEW c \in Names
      PROVE  /\ Commands[c].msg_class \in 0 .. 127 /\ Commands[c].broadcast \in 0 .. 1
             /\ Commands[c].des_device \in 0 .. 15 /\ Commands[c].des_id \in 0 .. 63
             /\ Commands[c].par \in 0 .. 255
    BY <1>2 DEF Names
<1>4. ASSUME NEW c \in Names, NEW d \in Names,
             Commands[c].msg_class = Commands[d].msg_class, Commands[c].par = Commands[d].par
      PROVE  c = d
    BY <1>2, <1>4 DEF Names
<1> QED BY <1>3, <1>4

-----------------------------------------------------------------------------
(* Where the receiver finds what the command put into the payload. *)

LEMMA WordPlace ==
    ASSUME NEW p \in Int, NEW b \in Seq(Int), Len(b) = 2
    PROVE  LET data == <<p, 0>> \o (b \o <<0, 0, 0, 0>>)
           IN data[1] = p /\ SubSeq(data, 3, 4) = b
<1> DEFINE head == <<p, 0>>
           rest == <<0, 0, 0, 0>>
           tail == b \o rest
           data == head \o tail
           word == SubSeq(data, 3, 4)
<1>1. /\ head \in Seq(Int) /\ Len(head) = 2 /\ head[1] = p
      /\ rest \in Seq(Int) /\ Len(rest) = 4
    OBVIOUS
<1> HIDE DEF head, rest
<1>2. tail \in Seq(Int) /\ Len(tail) = 6 /\ tail[1] = b[1] /\ tail[2] = b[2]
    <2>1. /\ tail \in Seq(Int) /\ Len(tail) = Len(b) + Len(rest)
          /\ \A i \in 1 .. Len(b) + Len(rest) :
                 tail[i] = IF i <= Len(b) THEN b[i] ELSE rest[i - Len(b)]
        BY <1>1, ConcatProperties
    <2> HIDE DEF tail
    <2> QED BY <1>1, <2>1
<1> HIDE DEF tail
<1>3. /\ data \in Seq(Int) /\ Len(data) = 8
      /\ data[1] = p /\ data[3] = b[1] /\ data[4] = b[2]
    <2>1. /\ data \in Seq(Int) /\ Len(data) = Len(head) + Len(tail)
          /\ \A i \in 1 .. Len(head) + Len(tail) :
                 data[i] = IF i <= Len(head) THEN head[i] ELSE tail[i - Len(head)]
        BY <1>1, <1>2, ConcatProperties
    <2> HIDE DEF data
    <2> QED BY <1>1, <1>2, <2>1
<1> HIDE DEF data
<1>4. /\ word \in Seq(Int) /\ Len(word) = 2
      /\ \A i \in 1 .. 2 : word[i] = data[3 + i - 1]
    <2>1. \A i \in 3 .. 4 : data[i] \in Int
        <3>1. b[1] \in Int /\ b[2] \in Int
            OBVIOUS
        <3>2. \A i \in 3 .. 4 : i = 3 \/ i = 4
            OBVIOUS
        <3> QED BY <1>3, <3>1, <3>2, Zenon
    <2>2. /\ word \in Seq(Int) /\ Len(word) = IF 3 <= 4 THEN 4 - 3 + 1 ELSE 0
          /\ \A i \in 1 .. 4 - 3 + 1 : word[i] = data[3 + i - 1]
        BY <2>1, SubSeqProperties
    <2> HIDE DEF word
    <2> QED BY <2>2
<1> HIDE DEF word
<1>5. word[1] = b[1] /\ word[2] = b[2]
    BY <1>3, <1>4
<1>6. word = b
    BY <1>4, <1>5, SeqEqual, SMTT(30)
<1> QED BY <1>3, <1>6 DEF word, data, tail, head, rest

LEMMA TimePlace ==
    ASSUME NEW p \in Int, NEW t \in [1 .. 6 -> Int]
    PROVE  LET data == <<p, 0>> \o t
           IN data[1] = p /\ \A i \in 1 .. 6 : data[i + 2] = t[i]
<1> DEFINE head == <<p, 0>>
<1>1. head \in Seq(Int) /\ Len(head) = 2 /\ head[1] = p
    OBVIOUS
<1>2. t \in Seq(Int) /\ Len(t) = 6
    <2>1. t \in Seq(Int)
        BY SeqDef
    <2>2. DOMAIN t = 1 .. 6
        OBVIOUS
    <2> QED BY <2>1, <2>2, LenProperties
<1> HIDE DEF head
<1> DEFINE data == head \o t
<1>3. \A i \in 1 .. 8 : data[i] = IF i <= 2 THEN head[i] ELSE t[i - 2]
    <2>1. \A i \in 1 .. Len(head) + Len(t) :
              data[i] = IF i <= Len(head) THEN head[i] ELSE t[i - Len(head)]
        BY <1>1, <1>2, ConcatProperties
    <2>2. Len(head) = 2 /\ Len(t) = 6 /\ 2 + 6 = 8
        BY <1>1, <1>2
    <2> HIDE DEF data
    <2> QED BY <2>1, <2>2
<1> HIDE DEF data
<1>4. data[1] = p
    BY <1>1, <1>3
<1>5. ASSUME NEW i \in 1 .. 6
      PROVE  data[i + 2] = t[i]
    <2>1. i + 2 \in 1 .. 8 /\ ~(i + 2 <= 2) /\ (i + 2) - 2 = i
        OBVIOUS
    <2> QED BY <1>3, <2>1
<1> QED BY <1>4, <1>5 DEF head, data

\* The division of C rounds towards zero.
LEMMA TenthTruncates ==
    ASSUME NEW p \in Int
    PROVE  /\ Tenth(p) \in Int
           /\ p >= 0 => 10 * Tenth(p) <= p /\ p - (10 * Tenth(p)) < 10 /\ Tenth(p) >= 0
           /\ p < 0 => p <= 10 * Tenth(p) /\ (10 * Tenth(p)) - p < 10 /\ Tenth(p) <= 0
BY SMT DEF Tenth

-----------------------------------------------------------------------------
\* The arguments, by the type of the parameter that takes them.
LEMMA ArgumentTypes ==
    ASSUME NEW c \in Names, NEW a \in Arguments(c)
    PROVE  /\ c = "sync" => a \in [1 .. 6 -> Nat]
           /\ c = "dc_power" => a \in Int
           /\ c \in SignedCommands \ {"dc_power"} => a \in Int16
           /\ c \notin SignedCommands \cup {"sync"} => a \in UInt16
<1>1. /\ c = "sync" => a \in Times
      /\ c = "dc_power" => a \in Powers
      /\ c \in SignedCommands \ {"dc_power"} => a \in Shorts
      /\ c \notin SignedCommands \cup {"sync"} => a \in Words
    <2>1. /\ c = "sync" => Arguments(c) = Times
          /\ c = "dc_power" => Arguments(c) = Powers
        BY SMT DEF Arguments, SignedCommands
    <2>2. c \in SignedCommands \ {"dc_power"} => Arguments(c) = Shorts
        BY SMT DEF Arguments, SignedCommands
    <2>3. c \notin SignedCommands \cup {"sync"} => Arguments(c) = Words
        BY SMT DEF Arguments, SignedCommands
    <2> QED BY <2>1, <2>2, <2>3
<1> QED BY <1>1, CommandsAssumption, Zenon

\* The identifier a command packs is unpacked to the table's row and the monitor's address.
LEMMA HeaderKept ==
    ASSUME NEW c \in Names, NEW a
    PROVE  LET id == UnpackId(Packed(c, a).can_id)
           IN /\ id.msg_class = Commands[c].msg_class /\ id.broadcast = Commands[c].broadcast
              /\ id.des_device = Commands[c].des_device /\ id.des_id = Commands[c].des_id
              /\ id.src_device = DEV_MONITOR
<1> DEFINE f == [msg_class  |-> Commands[c].msg_class,
                 broadcast  |-> Commands[c].broadcast,
                 src_device |-> DEV_MONITOR,
                 src_id     |-> 0,
                 group_num  |-> 0,
                 des_device |-> Commands[c].des_device,
                 des_id     |-> Commands[c].des_id]
<1>1. Fitting(f)
    BY CommandTable DEF Fitting, DEV_MONITOR
<1>2. /\ f.msg_class = Commands[c].msg_class /\ f.broadcast = Commands[c].broadcast
      /\ f.des_device = Commands[c].des_device /\ f.des_id = Commands[c].des_id
      /\ f.src_device = DEV_MONITOR
    OBVIOUS
<1>3. Packed(c, a).can_id = PackId(f)
    BY DEF Packed
<1>4. {"msg_class", "broadcast", "des_device", "des_id", "src_device"} \subseteq DOMAIN BitFields
    BY DEF BitFields
<1> HIDE DEF f
<1> QED BY <1>1, <1>2, <1>3, <1>4, IdentifierKept

\* The number a command packs into its first word.
Value(c, a) == IF c = "dc_power" THEN Tenth(a) ELSE a

LEMMA DataKept ==
    ASSUME NEW c \in Names, NEW a \in Arguments(c)
    PROVE  LET data == Packed(c, a).data
           IN /\ data[1] = Commands[c].par
              /\ c # "sync" => SubSeq(data, 3, 4) = Bytes16(Value(c, a))
              /\ c = "sync" => \A i \in 1 .. 6 : data[i + 2] = a[i] % 256
<1> DEFINE data == Packed(c, a).data
           par == Commands[c].par
<1>1. data = <<par, 0>> \o Payload(c, a)
    BY DEF Packed
<1>2. par \in Int
    BY CommandTable
<1>3. CASE c = "sync"
    <2> DEFINE t == [i \in 1 .. 6 |-> a[i] % 256]
    <2>1. a \in [1 .. 6 -> Nat]
        BY <1>3, ArgumentTypes
    <2>2. t \in [1 .. 6 -> Int] /\ \A i \in 1 .. 6 : t[i] = a[i] % 256
        BY <2>1
    <2>3. Payload(c, a) = t
        BY <1>3 DEF Payload
    <2> HIDE DEF data, par, t
    <2>4. data[1] = par /\ \A i \in 1 .. 6 : data[i + 2] = t[i]
        BY <1>1, <1>2, <2>2, <2>3, TimePlace, ZenonT(60)
    <2>5. data[1] = par /\ \A i \in 1 .. 6 : data[i + 2] = a[i] % 256
        BY <2>2, <2>4
    <2> QED BY <1>3, <2>5 DEF data, par
<1>4. CASE c # "sync"
    <2> DEFINE b == Bytes16(Value(c, a))
    <2>1. Value(c, a) \in Int
        BY <1>4, ArgumentTypes, TenthTruncates DEF Value, UInt16, Int16
    <2>2. b \in Seq(Int) /\ Len(b) = 2
        BY <2>1, BytesAreTwo
    <2>3. Payload(c, a) = b \o <<0, 0, 0, 0>>
        BY <1>4 DEF Payload, Value
    <2> HIDE DEF data, par, b
    <2>4. data[1] = par /\ SubSeq(data, 3, 4) = b
        BY <1>1, <1>2, <2>2, <2>3, WordPlace
    <2> QED BY <1>4, <2>4 DEF data, par, b
<1> QED BY <1>3, <1>4

\* A frame can be no other command's: none has the same class and parameter.
LEMMA HeardRight ==
    ASSUME NEW c \in Names, NEW a \in Arguments(c)
    PROVE  Heard(Packed(c, a)) = {c}
<1> DEFINE f == Packed(c, a)
           id == UnpackId(f.can_id)
<1>1. /\ id["msg_class"] = Commands[c]["msg_class"]
      /\ id["broadcast"] = Commands[c]["broadcast"]
      /\ id["des_device"] = Commands[c]["des_device"]
      /\ id["des_id"] = Commands[c]["des_id"]
      /\ id.src_device = DEV_MONITOR
    BY HeaderKept
<1>2. f.data[1] = Commands[c]["par"]
    BY DataKept
<1> HIDE DEF f
<1>3. ASSUME NEW d \in Heard(f)
      PROVE  d = c
    <2>1. d \in Names /\ id["msg_class"] = Commands[d]["msg_class"]
          /\ f.data[1] = Commands[d]["par"]
        BY <1>3, CommandNames DEF Heard
    <2> QED BY <1>1, <1>2, <2>1, CommandTable
<1>4. c \in Heard(f)
    BY <1>1, <1>2, CommandNames DEF Heard
<1> QED BY <1>3, <1>4 DEF f

-----------------------------------------------------------------------------
(* The inductive invariant: what was packed last is the last command's. *)

Sent == cmd # "none" => cmd \in Names /\ arg \in Arguments(cmd) /\ frame = Packed(cmd, arg)

LEMMA SentAlways == Spec => []Sent
<1>1. Init => Sent
    BY DEF Init, Sent
<1>2. Sent /\ [Next]_vars => Sent'
    <2> SUFFICES ASSUME Sent, [Next]_vars
                 PROVE  Sent'
        OBVIOUS
    <2>1. ASSUME NEW c \in DOMAIN Commands, NEW a \in Arguments(c), Issue(c, a)
          PROVE  Sent'
        <3>1. cmd' = c /\ arg' = a /\ frame' = Packed(c, a)
            BY <2>1 DEF Issue
        <3>2. c \in Names /\ a \in Arguments(c)
            BY CommandNames
        <3> QED BY <3>1, <3>2 DEF Sent
    <2>2. CASE Take
        BY <2>2 DEF Take, Sent
    <2>3. CASE UNCHANGED vars
        BY <2>3 DEF vars, Sent
    <2> QED BY <2>1, <2>2, <2>3 DEF Next
<1> QED BY <1>1, <1>2, PTL DEF Spec

LEMMA ReadAsMeant == Sent => Understood
<1> SUFFICES ASSUME Sent, cmd # "none"
             PROVE  /\ Heard(frame) = {cmd}
                    /\ cmd \notin {"sync", "dc_power"} =>
                           HeardValue(frame, cmd \in SignedCommands) = arg
                    /\ cmd = "sync" => \A i \in 1 .. 6 : (arg[i] - frame.data[i + 2]) % 256 = 0
    BY DEF Understood
<1>1. cmd \in Names /\ arg \in Arguments(cmd) /\ frame = Packed(cmd, arg)
    BY DEF Sent
<1>2. Heard(frame) = {cmd}
    BY <1>1, HeardRight
<1>3. ASSUME cmd \notin {"sync", "dc_power"}
      PROVE  HeardValue(frame, cmd \in SignedCommands) = arg
    <2>1. SubSeq(frame.data, 3, 4) = Bytes16(arg)
        BY <1>1, <1>3, DataKept DEF Value
    <2>2. CASE cmd \in SignedCommands
        <3>1. arg \in Int16
            BY <1>1, <1>3, <2>2, ArgumentTypes
        <3> QED BY <2>1, <2>2, <3>1, SignKept DEF HeardValue
    <2>3. CASE cmd \notin SignedCommands
        <3>1. arg \in UInt16
            BY <1>1, <1>3, <2>3, ArgumentTypes
        <3> QED BY <2>1, <2>3, <3>1, WordKept DEF HeardValue
    <2> QED BY <2>2, <2>3
<1>4. ASSUME cmd = "sync", NEW i \in 1 .. 6
      PROVE  (arg[i] - frame.data[i + 2]) % 256 = 0
    <2>1. arg \in [1 .. 6 -> Nat]
        BY <1>1, <1>4, ArgumentTypes
    <2>2. frame.data[i + 2] = arg[i] % 256
        BY <1>1, <1>4, DataKept
    <2> DEFINE n == arg[i]
    <2>3. n \in Nat
        BY <2>1
    <2> HIDE DEF n
    <2>4. (n - (n % 256)) % 256 = 0
        BY <2>3, SMT
    <2> QED BY <2>2, <2>4 DEF n
<1> QED BY <1>2, <1>3, <1>4

LEMMA PowerRead == Sent => PowerKept
<1> SUFFICES ASSUME Sent, cmd = "dc_power", arg \in TenthFits
             PROVE  LET p == 10 * HeardValue(frame, TRUE)
                    IN IF arg >= 0 THEN p \in 0 .. arg /\ arg - p < 10
                                   ELSE -p \in 0 .. -arg /\ p - arg < 10
    BY DEF PowerKept
<1>1. cmd \in Names /\ arg \in Arguments(cmd) /\ frame = Packed(cmd, arg) /\ cmd # "sync"
    BY DEF Sent
<1>2. arg \in Int
    BY <1>1, ArgumentTypes
<1> DEFINE q == Tenth(arg)
<1>3. /\ q \in Int
      /\ arg >= 0 => 10 * q <= arg /\ arg - (10 * q) < 10 /\ q >= 0
      /\ arg < 0 => arg <= 10 * q /\ (10 * q) - arg < 10 /\ q <= 0
    BY <1>2, TenthTruncates
<1>4. SubSeq(frame.data, 3, 4) = Bytes16(q)
    BY <1>1, DataKept DEF Value
<1> HIDE DEF q
<1>5. q \in Int16
    BY <1>2, <1>3, SMT DEF Int16, TenthFits
<1>6. HeardValue(frame, TRUE) = q
    BY <1>4, <1>5, SignKept DEF HeardValue
<1> DEFINE p == 10 * q
<1>7. IF arg >= 0 THEN p \in 0 .. arg /\ arg - p < 10
                  ELSE -p \in 0 .. -arg /\ p - arg < 10
    BY <1>2, <1>3, SMT
<1> QED BY <1>6, <1>7, Zenon

\* For every ring and every argument: the receiver recognises each command, and no
\* other, and reads what it was given, after any number of them.
THEOREM CommandsUnderstood == Spec => []Understood
BY SentAlways, ReadAsMeant, PTL

\* For every power: what fits is never exceeded, never reversed, missed by less than ten.
THEOREM PowerNearlyKept == Spec => []PowerKept
BY SentAlways, PowerRead, PTL

-----------------------------------------------------------------------------
(* What time_subtrack returns, for all times that gettimeofday may give. *)

\* Rounding to milliseconds: whole seconds may be rounded apart, and a longer time
\* never counts fewer milliseconds.
LEMMA MillisBySeconds ==
    ASSUME NEW u \in Nat, NEW s \in Int, u + 1000000 * s >= 0
    PROVE  Millis(u) + 1000 * s = Millis(u + 1000000 * s)
<1>1. (u + 1000000 * s) \div 1000 = (u \div 1000) + 1000 * s
    OBVIOUS
<1>2. (u + 1000000 * s) % 1000 = u % 1000
    OBVIOUS
<1> QED BY <1>1, <1>2 DEF Millis

LEMMA MillisMonotone ==
    ASSUME NEW a \in Nat, NEW b \in Nat, a <= b
    PROVE  Millis(a) <= Millis(b)
BY DEF Millis

\* A call establishes what ElapsedNeverShort says of its arguments and results,
\* whatever the call before it left.
LEMMA SubtrackExact ==
    ASSUME NEW x \in Instants, NEW y \in Instants, Subtrack(x, y)
    PROVE  ElapsedNeverShort'
<1> USE TimeAssumption
<1>1. /\ x.sec \in Nat /\ x.usec \in {u \in Nat : u < 1000000}
      /\ y.sec \in Nat /\ y.usec \in {u \in Nat : u < 1000000}
    OBVIOUS
<1>2. from' = x /\ to' = y
    BY DEF Subtrack
<1>3. CASE Later(x, y)
    BY <1>2, <1>3 DEF Subtrack, ElapsedNeverShort, Later
<1>4. CASE ~Later(x, y)
    <2> DEFINE elapsed == Micros(y) - Micros(x)
               below == IF y.usec < x.usec THEN x.usec - y.usec ELSE 0
    <2>1. diff' = Rel(x, y) /\ tim' = Millis(diff'.usec) + 1000 * diff'.sec
        BY <1>4 DEF Subtrack
    <2>2. elapsed \in Nat /\ below \in Nat
        BY <1>1, <1>4 DEF Later, Micros
    <2>3. /\ diff'.usec \in Nat /\ diff'.sec \in Int
          /\ Micros(diff') = elapsed + 2 * below
          /\ diff'.usec >= 1000000 <=> below > 0
        BY <1>1, <2>1 DEF Rel, Micros
    <2>4. tim' = Millis(elapsed + 2 * below)
        <3>1. diff'.usec + 1000000 * diff'.sec = elapsed + 2 * below
            BY <2>3 DEF Micros
        <3> HIDE DEF elapsed, below
        <3> QED BY <2>1, <2>2, <2>3, <3>1, MillisBySeconds
    <2>5. tim' >= Millis(elapsed)
        <3> HIDE DEF elapsed, below
        <3>1. Millis(elapsed) <= Millis(elapsed + 2 * below)
            BY <2>2, MillisMonotone
        <3>2. Millis(elapsed) \in Int /\ Millis(elapsed + 2 * below) \in Int
            BY <2>2 DEF Millis
        <3> QED BY <2>4, <3>1, <3>2
    <2> QED BY <1>2, <1>4, <2>3, <2>4, <2>5 DEF ElapsedNeverShort
<1> QED BY <1>3, <1>4

\* time_subtrack never returns less than the time passed, and errs by twice the
\* borrow and nothing else: for all times, in every sequence of calls.
THEOREM NeverShort == TimeSpec => []ElapsedNeverShort
<1>1. TimeInit => ElapsedNeverShort
    BY DEF TimeInit, ElapsedNeverShort, Later, Zero, Micros, Millis
<1>2. ElapsedNeverShort /\ [TimeNext]_timeVars => ElapsedNeverShort'
    <2> SUFFICES ASSUME ElapsedNeverShort, [TimeNext]_timeVars
                 PROVE  ElapsedNeverShort'
        OBVIOUS
    <2>1. CASE TimeNext
        BY <2>1, SubtrackExact DEF TimeNext
    <2>2. CASE UNCHANGED timeVars
        BY <2>2 DEF timeVars, ElapsedNeverShort, Later, Micros, Millis
    <2> QED BY <2>1, <2>2
<1> QED BY <1>1, <1>2, PTL DEF TimeSpec
=============================================================================
