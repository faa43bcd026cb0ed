--------------------------- MODULE CanFrameProofs ---------------------------
(***************************************************************************)
(* What goes into an identifier comes out of it, for all values of its     *)
(* bit-fields; and what two bytes make of a 16-bit value.                  *)
(***************************************************************************)
EXTENDS CanFrame, TLAPS

\* Division and remainder of a number with a part above a weight and a part below.
LEMMA Digits ==
    ASSUME NEW low \in Nat, NEW W \in Nat \ {0}, low < W, NEW high \in Nat
    PROVE  (low + W * high) \div W = high /\ (low + W * high) % W = low
BY SMT

\* What fits its bit-field is stored as it is.
LEMMA Fits ==
    ASSUME NEW v \in Nat, NEW V \in Nat \ {0}, v < V
    PROVE  v % V = v
BY SMT

Fitting(f) ==
    /\ f.des_id \in 0 .. 63 /\ f.des_device \in 0 .. 15 /\ f.group_num \in 0 .. 15
    /\ f.src_id \in 0 .. 63 /\ f.src_device \in 0 .. 15 /\ f.broadcast \in 0 .. 1
    /\ f.msg_class \in 0 .. 127

LEMMA PackedSum ==
    ASSUME NEW f, Fitting(f)
    PROVE  PackId(f) = f.des_id + f.des_device * 64 + f.group_num * 1024 + f.src_id * 16384
                           + f.src_device * 1048576 + f.broadcast * 16777216
                           + f.msg_class * 33554432
<1>1. /\ BitFields.des_id = [weight |-> 1, values |-> 64]
      /\ BitFields.des_device = [weight |-> 64, values |-> 16]
      /\ BitFields.group_num = [weight |-> 1024, values |-> 16]
      /\ BitFields.src_id = [weight |-> 16384, values |-> 64]
      /\ BitFields.src_device = [weight |-> 1048576, values |-> 16]
      /\ BitFields.broadcast = [weight |-> 16777216, values |-> 2]
      /\ BitFields.msg_class = [weight |-> 33554432, values |-> 128]
    BY SMT DEF BitFields
<1>2. /\ f.des_id % 64 = f.des_id /\ f.des_device % 16 = f.des_device
      /\ f.group_num % 16 = f.group_num /\ f.src_id % 64 = f.src_id
      /\ f.src_device % 16 = f.src_device /\ f.broadcast % 2 = f.broadcast
      /\ f.msg_class % 128 = f.msg_class
    BY SMT DEF Fitting
<1>3. /\ f.des_id \in Nat /\ f.des_device \in Nat /\ f.group_num \in Nat /\ f.src_id \in Nat
      /\ f.src_device \in Nat /\ f.broadcast \in Nat /\ f.msg_class \in Nat
    BY SMT DEF Fitting
<1> QED
    BY <1>1, <1>2, <1>3, SMT DEF PackId

\* A bit-field of V values, one of them v, between what lies below it and above it.
Between(low, W, v, V, high) == low + W * (v + V * high)

\* Where a bit-field of v values and weight W lies in an identifier, the bits below and
\* above it are cut off when it is read.
LEMMA OneDigit ==
    ASSUME NEW low \in Nat, NEW W \in Nat \ {0}, low < W,
           NEW v \in Nat, NEW V \in Nat \ {0}, v < V,
           NEW high \in Nat
    PROVE  (Between(low, W, v, V, high) \div W) % V = v
<1> DEFINE middle == v + V * high
<1>1. middle \in Nat
    OBVIOUS
<1>2. middle % V = v
    BY Digits
<1> HIDE DEF middle
<1>3. (low + W * middle) \div W = middle
    BY <1>1, Digits
<1> QED
    BY <1>2, <1>3 DEF middle, Between

\* Whatever fits the bit-fields comes out of them as it went in.
LEMMA IdentifierKept ==
    ASSUME NEW f, Fitting(f)
    PROVE  \A name \in DOMAIN BitFields : UnpackId(PackId(f))[name] = f[name]
<1> DEFINE id == PackId(f)
           a == f.des_id
           b == f.des_device
           c == f.group_num
           d == f.src_id
           e == f.src_device
           g == f.broadcast
           h == f.msg_class
<1>1. /\ a \in Nat /\ b \in Nat /\ c \in Nat /\ d \in Nat /\ e \in Nat /\ g \in Nat /\ h \in Nat
      /\ a < 64 /\ b < 16 /\ c < 16 /\ d < 64 /\ e < 16 /\ g < 2 /\ h < 128
    BY SMT DEF Fitting
<1>2. id = a + b * 64 + c * 1024 + d * 16384 + e * 1048576 + g * 16777216 + h * 33554432
    BY PackedSum
<1>3. \A name \in DOMAIN BitFields :
          UnpackId(id)[name] = (id \div BitFields[name].weight) % BitFields[name].values
    BY Zenon DEF UnpackId
<1>4. /\ DOMAIN BitFields = {"des_id", "des_device", "group_num", "src_id", "src_device",
                             "broadcast", "msg_class"}
      /\ BitFields["des_id"] = [weight |-> 1, values |-> 64]
      /\ BitFields["des_device"] = [weight |-> 64, values |-> 16]
      /\ BitFields["group_num"] = [weight |-> 1024, values |-> 16]
      /\ BitFields["src_id"] = [weight |-> 16384, values |-> 64]
      /\ BitFields["src_device"] = [weight |-> 1048576, values |-> 16]
      /\ BitFields["broadcast"] = [weight |-> 16777216, values |-> 2]
      /\ BitFields["msg_class"] = [weight |-> 33554432, values |-> 128]
    BY SMT DEF BitFields
<1> HIDE DEF id, a, b, c, d, e, g, h
<1>5. (id \div 1) % 64 = a
    <2> DEFINE W == 1
               V == 64
               low == 0
               high == b + c * 16 + d * 256 + e * 16384 + g * 262144 + h * 524288
    <2>1. /\ W \in Nat \ {0} /\ V \in Nat \ {0} /\ low \in Nat /\ high \in Nat
          /\ low < W /\ a < V /\ a \in Nat
          /\ id = Between(low, W, a, V, high)
        BY <1>1, <1>2, SMT DEF Between
    <2>2. (id \div W) % V = a
        <3> HIDE DEF W, V, low, high
        <3>1. (Between(low, W, a, V, high) \div W) % V = a
            BY <2>1, OneDigit, SMT
        <3> QED BY <2>1, <3>1, Zenon
    <2> QED BY <2>2
<1>6. (id \div 64) % 16 = b
    <2> DEFINE W == 64
               V == 16
               low == a
               high == c + d * 16 + e * 1024 + g * 16384 + h * 32768
    <2>1. /\ W \in Nat \ {0} /\ V \in Nat \ {0} /\ low \in Nat /\ high \in Nat
          /\ low < W /\ b < V /\ b \in Nat
          /\ id = Between(low, W, b, V, high)
        BY <1>1, <1>2, SMT DEF Between
    <2>2. (id \div W) % V = b
        <3> HIDE DEF W, V, low, high
        <3>1. (Between(low, W, b, V, high) \div W) % V = b
            BY <2>1, OneDigit, SMT
        <3> QED BY <2>1, <3>1, Zenon
    <2> QED BY <2>2
<1>7. (id \div 1024) % 16 = c
    <2> DEFINE W == 1024
               V == 16
               low == a + b * 64
               high == d + e * 64 + g * 1024 + h * 2048
    <2>1. /\ W \in Nat \ {0} /\ V \in Nat \ {0} /\ low \in Nat /\ high \in Nat
          /\ low < W /\ c < V /\ c \in Nat
          /\ id = Between(low, W, c, V, high)
        BY <1>1, <1>2, SMT DEF Between
    <2>2. (id \div W) % V = c
        <3> HIDE DEF W, V, low, high
        <3>1. (Between(low, W, c, V, high) \div W) % V = c
            BY <2>1, OneDigit, SMT
        <3> QED BY <2>1, <3>1, Zenon
    <2> QED BY <2>2
<1>8. (id \div 16384) % 64 = d
    <2> DEFINE W == 16384
               V == 64
               low == a + b * 64 + c * 1024
               high == e + g * 16 + h * 32
    <2>1. /\ W \in Nat \ {0} /\ V \in Nat \ {0} /\ low \in Nat /\ high \in Nat
          /\ low < W /\ d < V /\ d \in Nat
          /\ id = Between(low, W, d, V, high)
        BY <1>1, <1>2, SMT DEF Between
    <2>2. (id \div W) % V = d
        <3> HIDE DEF W, V, low, high
        <3>1. (Between(low, W, d, V, high) \div W) % V = d
            BY <2>1, OneDigit, SMT
        <3> QED BY <2>1, <3>1, Zenon
    <2> QED BY <2>2
<1>9. (id \div 1048576) % 16 = e
    <2> DEFINE W == 1048576
               V == 16
               low == a + b * 64 + c * 1024 + d * 16384
               high == g + h * 2
    <2>1. /\ W \in Nat \ {0} /\ V \in Nat \ {0} /\ low \in Nat /\ high \in Nat
          /\ low < W /\ e < V /\ e \in Nat
          /\ id = Between(low, W, e, V, high)
        BY <1>1, <1>2, SMT DEF Between
    <2>2. (id \div W) % V = e
        <3> HIDE DEF W, V, low, high
        <3>1. (Between(low, W, e, V, high) \div W) % V = e
            BY <2>1, OneDigit, SMT
        <3> QED BY <2>1, <3>1, Zenon
    <2> QED BY <2>2
<1>10. (id \div 16777216) % 2 = g
    <2> DEFINE W == 16777216
               V == 2
               low == a + b * 64 + c * 1024 + d * 16384 + e * 1048576
               high == h
    <2>1. /\ W \in Nat \ {0} /\ V \in Nat \ {0} /\ low \in Nat /\ high \in Nat
          /\ low < W /\ g < V /\ g \in Nat
          /\ id = Between(low, W, g, V, high)
        BY <1>1, <1>2, SMT DEF Between
    <2>2. (id \div W) % V = g
        <3> HIDE DEF W, V, low, high
        <3>1. (Between(low, W, g, V, high) \div W) % V = g
            BY <2>1, OneDigit, SMT
        <3> QED BY <2>1, <3>1, Zenon
    <2> QED BY <2>2
<1>11. (id \div 33554432) % 128 = h
    <2> DEFINE W == 33554432
               V == 128
               low == a + b * 64 + c * 1024 + d * 16384 + e * 1048576 + g * 16777216
               high == 0
    <2>1. /\ W \in Nat \ {0} /\ V \in Nat \ {0} /\ low \in Nat /\ high \in Nat
          /\ low < W /\ h < V /\ h \in Nat
          /\ id = Between(low, W, h, V, high)
        BY <1>1, <1>2, SMT DEF Between
    <2>2. (id \div W) % V = h
        <3> HIDE DEF W, V, low, high
        <3>1. (Between(low, W, h, V, high) \div W) % V = h
            BY <2>1, OneDigit, SMT
        <3> QED BY <2>1, <3>1, Zenon
    <2> QED BY <2>2
<1>12. /\ f["des_id"] = a /\ f["des_device"] = b /\ f["group_num"] = c /\ f["src_id"] = d
       /\ f["src_device"] = e /\ f["broadcast"] = g /\ f["msg_class"] = h
    BY Zenon DEF a, b, c, d, e, g, h
<1> SUFFICES ASSUME NEW name \in DOMAIN BitFields
             PROVE  UnpackId(id)[name] = f[name]
    BY Zenon DEF id
<1>13. UnpackId(id)[name] = (id \div BitFields[name].weight) % BitFields[name].values
    BY <1>3, Zenon
<1> QED
    BY <1>4, <1>5, <1>6, <1>7, <1>8, <1>9, <1>10, <1>11, <1>12, <1>13, SMT

-----------------------------------------------------------------------------
(* Words of two bytes. *)

LEMMA BytesAreTwo ==
    ASSUME NEW v \in Int
    PROVE  Bytes16(v) \in Seq(Int) /\ Len(Bytes16(v)) = 2
BY DEF Bytes16

\* A number from its high and its low byte, negative ones included.
LEMMA HighAndLow ==
    ASSUME NEW v \in Int
    PROVE  /\ v \div 256 \in Int /\ v % 256 \in 0 .. 255
           /\ v = 256 * (v \div 256) + (v % 256)
BY SMT

LEMMA HighByte ==
    ASSUME NEW h \in Int, -128 <= h, h < 256
    PROVE  h % 256 = IF h >= 0 THEN h ELSE h + 256
BY SMT

\* The value of two bytes is the one they were made of, modulo 2^16.
LEMMA WordKept ==
    ASSUME NEW v \in UInt16
    PROVE  Word16(Bytes16(v)) = v
<1> DEFINE h == v \div 256
           l == v % 256
<1>1. h \in Int /\ l \in 0 .. 255 /\ v = 256 * h + l /\ v >= 0 /\ v < 65536
    BY HighAndLow, SMT DEF UInt16
<1>2. Word16(Bytes16(v)) = (h % 256) * 256 + l
    BY SMT DEF Word16, Bytes16
<1> HIDE DEF h, l
<1>3. h % 256 = h
    BY <1>1, HighByte, SMT
<1> QED BY <1>1, <1>2, <1>3, SMT

LEMMA SignKept ==
    ASSUME NEW v \in Int16
    PROVE  Signed16(Bytes16(v)) = v
<1> DEFINE h == v \div 256
           l == v % 256
<1>1. h \in Int /\ l \in 0 .. 255 /\ v = 256 * h + l /\ v >= -32768 /\ v < 32768
    BY HighAndLow, SMT DEF Int16
<1>2. Bytes16(v)[1] = h % 256 /\ Bytes16(v)[2] = l
    BY SMT DEF Bytes16
<1> HIDE DEF h, l
<1>3. h % 256 = IF h >= 0 THEN h ELSE h + 256
    BY <1>1, HighByte, SMT
<1>4. h >= -128 /\ h < 128 /\ (h >= 0 <=> v >= 0)
    BY <1>1, SMT
<1> QED BY <1>1, <1>2, <1>3, <1>4, SMT DEF Signed16, Word16

LEMMA WordInRange ==
    ASSUME NEW b \in (0 .. 255) \X (0 .. 255)
    PROVE  Word16(b) \in UInt16 /\ Signed16(b) \in Int16
<1> DEFINE h == b[1]
           l == b[2]
<1>1. h \in 0 .. 255 /\ l \in 0 .. 255
    OBVIOUS
<1>2. /\ Word16(b) = (h * 256) + l
      /\ Signed16(b) = IF h < 128 THEN Word16(b) ELSE Word16(b) - 65536
    BY SMT DEF Word16, Signed16
<1> HIDE DEF h, l
<1> QED BY <1>1, <1>2, SMT DEF UInt16, Int16

\* The sign is the highest bit of the high byte.
LEMMA SignOfWord ==
    ASSUME NEW b \in (0 .. 255) \X (0 .. 255)
    PROVE  Signed16(b) = IF Word16(b) < 32768 THEN Word16(b) ELSE Word16(b) - 65536
<1> DEFINE h == b[1]
           l == b[2]
<1>1. h \in 0 .. 255 /\ l \in 0 .. 255
    OBVIOUS
<1>2. /\ Word16(b) = (h * 256) + l
      /\ Signed16(b) = IF h < 128 THEN Word16(b) ELSE Word16(b) - 65536
    BY SMT DEF Word16, Signed16
<1> HIDE DEF h, l
<1> QED BY <1>1, <1>2, SMT
=============================================================================
