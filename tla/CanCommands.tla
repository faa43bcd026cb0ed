----------------------------- MODULE CanCommands -----------------------------
(***************************************************************************)
(* ll_es_can_pro.c and ll_socket_send: the commands of the gateway client. *)
(* Each one fills six bytes, builds the identifier, packs both into a      *)
(* socket_frame_t and puts it into the transmit ring.  Here the ring is    *)
(* only the room it has: how a put and a get overlap is RingBuffer's and   *)
(* GatewayClient's.  The receiver, which is not part of the repository,    *)
(* reads what it was sent by the same layout.                              *)
(***************************************************************************)
EXTENDS CanFrame

CONSTANTS
    RingSize,    \* bytes the transmit ring holds
    Words,       \* arguments of the commands that take a uint16_t
    Shorts,      \* arguments of those that take an int16_t
    Powers,      \* arguments of ll_es_can_dc_power
    Times        \* values of the six members of struct tm that sync sends

FrameLen == 13   \* sizeof(socket_frame_t)

ASSUME CommandsAssumption ==
    /\ RingSize \in Nat
    /\ Words \subseteq UInt16
    /\ Shorts \subseteq Int16
    /\ Powers \subseteq Int
    /\ Times \subseteq [1 .. 6 -> Nat]

VARIABLES
    free,        \* bytes the ring has room for
    cmd,         \* the command last issued, "none" at first
    arg,         \* its argument
    frame,       \* the frame it packed
    stored,      \* how much of it the ring took
    ret          \* what the function returned

vars == <<free, cmd, arg, frame, stored, ret>>

Lesser(a, b) == IF a < b THEN a ELSE b

\* What each function passes to ll_socket_send.
Cmd(class, device, id, par) ==
    [msg_class |-> class, broadcast |-> 0, des_device |-> device, des_id |-> id, par |-> par]

Commands ==
    [power_onoff       |-> Cmd(RemoteControlMsg, DEV_DCDC, 1, 1),
     faultclear        |-> Cmd(RemoteControlMsg, DEV_DCDC, 0, 2),
     onoffgrid         |-> Cmd(RemoteControlMsg, DEV_ALL, 0, 3),
     offgird_vset      |-> Cmd(RemoteSetupMsg, DEV_DCDC, 1, 5),
     enable_dcmodule   |-> Cmd(RemoteSetupMsg, DEV_DCDC, 1, 7),
     enable_bmsmodule  |-> Cmd(RemoteSetupMsg, DEV_DCDC, 1, 11),
     bat_CHG_vset      |-> Cmd(RemoteSetupMsg, DEV_DCDC, 1, 112),
     max_CHG_current   |-> Cmd(RemoteSetupMsg, DEV_DCDC, 1, 113),
     max_DISCH_current |-> Cmd(RemoteSetupMsg, DEV_DCDC, 1, 114),
     uplimited_vset    |-> Cmd(RemoteSetupMsg, DEV_DCDC, 1, 115),
     downlimited_vset  |-> Cmd(RemoteSetupMsg, DEV_DCDC, 1, 116),
     dc_power          |-> Cmd(RemoteSetupMsg, DEV_DCDC, 1, 117),
     eod               |-> Cmd(RemoteSetupMsg, DEV_DCDC, 1, 118),
     ongrid_dod        |-> Cmd(RemoteSetupMsg, DEV_DCDC, 1, 119),
     offgrid_dod       |-> Cmd(RemoteSetupMsg, DEV_DCDC, 1, 120),
     set_sys_state     |-> Cmd(RemoteSetupMsg, DEV_DCDC, 1, 131),
     sync              |-> [Cmd(RemoteSetupMsg, DEV_ALL, 0, 1) EXCEPT !.broadcast = 1]]

SignedCommands == {"bat_CHG_vset", "uplimited_vset", "downlimited_vset", "dc_power"}

Arguments(c) ==
    CASE c = "sync"                            -> Times
      [] c = "dc_power"                        -> Powers
      [] c \in SignedCommands \ {"dc_power"} -> Shorts
      [] OTHER                                 -> Words

\* (int16_t)(pw_set / 10): C's division drops the fraction, the cast keeps the low
\* 16 bits.
TenthShifted(p) == p \div 10
Tenth(p) == IF p >= 0 THEN p \div 10 ELSE -((-p) \div 10)

\* databuf: a 16-bit argument in its first two bytes, or the time.
Payload(c, a) ==
    CASE c = "sync"     -> [i \in 1 .. 6 |-> a[i] % 256]
      [] c = "dc_power" -> Bytes16(Tenth(a)) \o <<0, 0, 0, 0>>
      [] OTHER          -> Bytes16(a) \o <<0, 0, 0, 0>>

\* ll_socket_send up to the put, and pack_msg_to_frame
Packed(c, a) ==
    [head   |-> 136,
     can_id |-> PackId([msg_class  |-> Commands[c].msg_class,
                        broadcast  |-> Commands[c].broadcast,
                        src_device |-> DEV_MONITOR,
                        src_id     |-> 0,
                        group_num  |-> 0,
                        des_device |-> Commands[c].des_device,
                        des_id     |-> Commands[c].des_id]),
     data   |-> <<Commands[c].par, 0>> \o Payload(c, a)]

Init ==
    /\ free = RingSize
    /\ cmd = "none"
    /\ arg = 0
    /\ frame = <<>>
    /\ stored = 0
    /\ ret = 0

\* ll_es_can_offgrid_dod drops what ll_socket_send returns.
Issue(c, a) ==
    /\ cmd' = c
    /\ arg' = a
    /\ frame' = Packed(c, a)
    /\ stored' = Lesser(FrameLen, free)
    /\ free' = free - stored'
    /\ ret' = IF c = "offgrid_dod" THEN -1 ELSE stored'

\* The other thread takes a frame's worth of bytes.
Take ==
    /\ free < RingSize
    /\ free' = Lesser(RingSize, free + FrameLen)
    /\ UNCHANGED <<cmd, arg, frame, stored, ret>>

Next == (\E c \in DOMAIN Commands : \E a \in Arguments(c) : Issue(c, a)) \/ Take

Spec == Init /\ [][Next]_vars

-----------------------------------------------------------------------------
\* How the receiver reads a frame: which commands it may be, and its 16-bit value.
Heard(f) ==
    {c \in DOMAIN Commands :
        LET id == UnpackId(f.can_id)
        IN /\ \A name \in {"msg_class", "broadcast", "des_device", "des_id"} :
                  id[name] = Commands[c][name]
           /\ id.src_device = DEV_MONITOR
           /\ f.data[1] = Commands[c].par}

HeardValue(f, signed) ==
    LET b == SubSeq(f.data, 3, 4) IN IF signed THEN Signed16(b) ELSE Word16(b)

\* The receiver recognises every command, and no other, and reads the argument
\* it was given, its sign included; of the time it reads the six low bytes.
Understood ==
    cmd # "none" =>
        /\ Heard(frame) = {cmd}
        /\ cmd \notin {"sync", "dc_power"} =>
               HeardValue(frame, cmd \in SignedCommands) = arg
        /\ cmd = "sync" => \A i \in 1 .. 6 : (arg[i] - frame.data[i + 2]) % 256 = 0

\* Powers whose tenth fits 16 bits.
TenthFits == {p \in Int : -327689 <= p /\ p <= 327679}

\* A power set-point that fits 16 bits once divided by ten is never exceeded,
\* never reversed, and missed by less than ten.
PowerKept ==
    cmd = "dc_power" /\ arg \in TenthFits =>
        LET p == 10 * HeardValue(frame, TRUE)
        IN IF arg >= 0 THEN p \in 0 .. arg /\ arg - p < 10
                       ELSE -p \in 0 .. -arg /\ p - arg < 10
=============================================================================
