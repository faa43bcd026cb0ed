------------------------------ MODULE CanFrame ------------------------------
(***************************************************************************)
(* The shape of a CAN message: the bit-fields of the identifier (can_msg.h)*)
(* and the 16-bit big-endian words of the payload.                         *)
(***************************************************************************)
EXTENDS Integers, Sequences

RemoteControlMsg == 1
RemoteSetupMsg == 2
RemoteSignalMsg == 3
RemoteMeterMsg == 4

DEV_ALL == 0
DEV_MONITOR == 1
DEV_DCDC == 4
DEV_BMS == 8

\* Each bit-field of _msg_canid: the weight of its lowest bit, and how many
\* values it has.  The compiler lays the fields out from the lowest bit on.
BitFields ==
    [des_id     |-> [weight |-> 1,     values |-> 64],
     des_device |-> [weight |-> 2^6,   values |-> 16],
     group_num  |-> [weight |-> 2^10,  values |-> 16],
     src_id     |-> [weight |-> 2^14,  values |-> 64],
     src_device |-> [weight |-> 2^20,  values |-> 16],
     broadcast  |-> [weight |-> 2^24,  values |-> 2],
     msg_class  |-> [weight |-> 2^25,  values |-> 128]]

\* Slip: src_id is taken to be 5 bits wide.
PackIdNarrow(f) ==
    f.des_id + (f.des_device * 2^6) + (f.group_num * 2^10) + (f.src_id * 2^14)
    + (f.src_device * 2^19) + (f.broadcast * 2^23) + (f.msg_class * 2^24)

\* Storing the fields one by one, each cut to its width.
PackId(f) ==
    LET in(name) == (f[name] % BitFields[name].values) * BitFields[name].weight
    IN in("des_id") + in("des_device") + in("group_num") + in("src_id")
       + in("src_device") + in("broadcast") + in("msg_class")

\* Reading them back from the identifier of a frame.
UnpackId(id) ==
    [name \in DOMAIN BitFields |->
        (id \div BitFields[name].weight) % BitFields[name].values]

\* The values of uint16_t and of int16_t.
UInt16 == {w \in Nat : w < 65536}
Int16 == {w \in Int : -32768 <= w /\ w < 32768}

\* Bytes of a 16-bit value, high byte first, and the value of two such bytes.  A
\* negative value is stored as its two's complement.
Bytes16(v) == <<(v \div 256) % 256, v % 256>>
Word16(b) == (b[1] * 256) + b[2]
Signed16(b) == IF b[1] < 128 THEN Word16(b) ELSE Word16(b) - 65536

\* Two such words, high word first, as a signed 32-bit value.
Signed32(high, low) == (Signed16(high) * 65536) + Word16(low)
=============================================================================
