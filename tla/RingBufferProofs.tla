-------------------------- MODULE RingBufferProofs --------------------------
(***************************************************************************)
(* The ring is a FIFO for every size, every counter width and every pair   *)
(* of request lengths: IInv is inductive, and the safety properties of     *)
(* RingBuffer follow from it; and it implements ByteFifo, for every step   *)
(* is one of the FIFO or leaves what the FIFO sees as it was.              *)
(***************************************************************************)
EXTENDS RingBuffer, SequenceTheorems, TLAPS

-----------------------------------------------------------------------------
(* Arithmetic of remainders.                                                *)

\* Division with remainder: quotient and remainder of a natural number.
LEMMA DivMod ==
    ASSUME NEW d \in Nat \ {0}, NEW a \in Nat
    PROVE  /\ a = (d * (a \div d)) + (a % d)
           /\ a % d \in 0 .. d - 1
           /\ a \div d \in Nat
    OBVIOUS

\* The remainder is unique.
LEMMA ModIs ==
    ASSUME NEW d \in Nat \ {0}, NEW k \in Nat, NEW r \in 0 .. d - 1
    PROVE  ((d * k) + r) % d = r
    OBVIOUS

\* Reducing twice, first by a multiple, is reducing once: what lets the masked
\* index be taken of a wrapped counter.
LEMMA ModOfMod ==
    ASSUME NEW d \in Nat \ {0}, NEW q \in Nat \ {0}, NEW a \in Nat
    PROVE  (a % (d * q)) % d = a % d
<1>1. d * q \in Nat \ {0}
    OBVIOUS
<1> DEFINE r == a % (d * q)
           e == a \div (d * q)
<1>2. a = ((d * q) * e) + r /\ r \in Nat /\ e \in Nat
    <2>1. a = ((d * q) * e) + r
        BY <1>1, DivMod
    <2>2. r \in 0 .. (d * q) - 1 /\ e \in Nat
        BY <1>1, DivMod
    <2> QED
        BY <1>1, <2>1, <2>2
<1> HIDE DEF r, e
<1> DEFINE u == r % d
           v == r \div d
<1>3. r = (d * v) + u /\ u \in 0 .. d - 1 /\ v \in Nat
    BY <1>2, DivMod
<1> HIDE DEF u, v
<1>4. a = (d * ((q * e) + v)) + u /\ (q * e) + v \in Nat
    BY <1>2, <1>3
<1>5. a % d = u
    BY <1>3, <1>4, ModIs
<1> QED
    BY <1>5 DEF u, r

\* A remainder may be taken before or after adding.
LEMMA ModPlus ==
    ASSUME NEW d \in Nat \ {0}, NEW a \in Nat, NEW b \in Nat
    PROVE  ((a % d) + b) % d = (a + b) % d
<1> DEFINE u == (a % d) + b
<1>1. a = (d * (a \div d)) + (a % d) /\ a % d \in 0 .. d - 1 /\ a \div d \in Nat
    BY DivMod
<1>2. u \in Nat
    BY <1>1
<1>3. u = (d * (u \div d)) + (u % d) /\ u % d \in 0 .. d - 1 /\ u \div d \in Nat
    BY <1>2, DivMod
<1>4. a + b = (d * ((a \div d) + (u \div d))) + (u % d)
    BY <1>1, <1>3
<1> HIDE DEF u
<1>5. (a \div d) + (u \div d) \in Nat
    BY <1>1, <1>3
<1> QED
    BY <1>3, <1>4, <1>5, ModIs DEF u

\* Fewer than d consecutive numbers have different remainders: bytes stored at
\* the same time lie in different cells.
LEMMA ModInjective ==
    ASSUME NEW d \in Nat \ {0}, NEW a \in Nat,
           NEW i \in 0 .. d - 1, NEW j \in 0 .. d - 1,
           (a + i) % d = (a + j) % d
    PROVE  i = j
<1> DEFINE p == (a + i) \div d
           q == (a + j) \div d
           s == (a + i) % d
<1>1. a + i = (d * p) + s /\ p \in Nat /\ s \in Nat
    <2>1. a + i \in Nat
        OBVIOUS
    <2>2. a + i = (d * p) + s /\ p \in Nat /\ s \in 0 .. d - 1
        BY <2>1, DivMod
    <2> QED
        BY ONLY <2>2
<1>2. a + j = (d * q) + s /\ q \in Nat
    <2>1. a + j \in Nat
        OBVIOUS
    <2> QED
        BY <2>1, DivMod
<1> HIDE DEF p, q, s
<1>3. i - j = d * (p - q)
    BY <1>1, <1>2
<1>4. CASE p > q
    <2>1. d * (p - q) >= d
        BY <1>1, <1>2, <1>4
    <2> QED
        BY <1>3, <2>1
<1>5. CASE q > p
    <2>1. d * (q - p) >= d
        BY <1>1, <1>2, <1>5
    <2> QED
        BY <1>1, <1>2, <1>3, <2>1
<1> QED
    BY <1>1, <1>2, <1>3, <1>4, <1>5

-----------------------------------------------------------------------------
(* Facts about the ring.                                                    *)

\* The counters wrap at no less than two ring sizes.
LEMMA ModulusFacts ==
    /\ Modulus \in Nat \ {0}
    /\ Modulus >= 2 * Size
    BY RingAssumption DEF Modulus

\* The masked index of a wrapped counter moved on by j.
LEMMA WrappedCell ==
    ASSUME NEW a \in Nat, NEW j \in Nat
    PROVE  ((a % Modulus) + j) % Size = (a + j) % Size
<1>1. a % Modulus \in Nat
    BY DivMod, ModulusFacts
<1>2. (a % Modulus) % Size = a % Size
    BY ModOfMod, RingAssumption DEF Modulus
<1>3. (((a % Modulus) % Size) + j) % Size = ((a % Modulus) + j) % Size
    BY <1>1, ModPlus, RingAssumption
<1>4. ((a % Size) + j) % Size = (a + j) % Size
    BY ModPlus, RingAssumption
<1> QED
    BY <1>2, <1>3, <1>4

\* The two memcpy calls visit the cells from the masked index on, in order and
\* around the end of the buffer.
LEMMA CellIs ==
    ASSUME NEW len \in Nat, len <= Size, NEW from \in Nat, NEW j \in 0 .. len - 1,
           NEW call \in Calls, call.first = Lesser(len, Size - (from % Size))
    PROVE  /\ Cell(call, from, j) = (from + j) % Size
           /\ Cell(call, from, j) \in Cells
<1> DEFINE f == from % Size
<1>1. f \in 0 .. Size - 1
    BY DivMod, RingAssumption
<1>2. (f + j) % Size = (from + j) % Size
    <2>1. j \in Nat /\ Size \in Nat \ {0}
        BY RingAssumption
    <2> QED
        BY <2>1, ModPlus
<1> HIDE DEF f
<1>3. CASE j < call.first
    <2>1. f + j \in 0 .. Size - 1 /\ Cell(call, from, j) = f + j
        BY <1>1, <1>3, RingAssumption DEF Lesser, Cell, f
    <2>2. f + j = (Size * 0) + (f + j)
        BY <2>1, RingAssumption
    <2>3. (f + j) % Size = f + j
        BY <2>1, <2>2, ModIs, RingAssumption
    <2> QED
        BY <1>2, <2>1, <2>3 DEF Cells
<1>4. CASE ~(j < call.first)
    <2>1. /\ call.first = Size - f
          /\ j - call.first \in 0 .. Size - 1
          /\ Cell(call, from, j) = j - call.first
        BY <1>1, <1>4, RingAssumption DEF Lesser, Cell, Calls, f
    <2>2. f + j = (Size * 1) + (j - call.first)
        BY <1>1, <2>1, RingAssumption
    <2>3. (f + j) % Size = j - call.first
        BY <2>1, <2>2, ModIs, RingAssumption
    <2> QED
        BY <1>2, <2>1, <2>3 DEF Cells
<1> QED
    BY <1>3, <1>4

\* Two wrapped counters lie u apart exactly when one is the other plus u, with or
\* without one wrap.
LEMMA Apart ==
    ASSUME NEW a \in Index, NEW b \in Index, NEW u \in Index
    PROVE  (Modulus + a - b) % Modulus = u <=> a = b + u \/ a = b + u - Modulus
<1>1. a \in Nat /\ b \in Nat /\ u \in Nat /\ a < Modulus /\ b < Modulus /\ u < Modulus
    BY ModulusFacts DEF Index
<1>2. ASSUME a >= b
      PROVE  (Modulus + a - b) % Modulus = a - b
    <2>1. Modulus + a - b = (Modulus * 1) + (a - b) /\ a - b \in 0 .. Modulus - 1
        BY <1>1, <1>2, ModulusFacts
    <2> QED
        BY <2>1, ModIs, ModulusFacts
<1>3. ASSUME a < b
      PROVE  (Modulus + a - b) % Modulus = Modulus + a - b
    <2>1. /\ Modulus + a - b = (Modulus * 0) + (Modulus + a - b)
          /\ Modulus + a - b \in 0 .. Modulus - 1
        BY <1>1, <1>3, ModulusFacts
    <2> QED
        BY <2>1, ModIs, ModulusFacts
<1> QED
    BY <1>1, <1>2, <1>3, ModulusFacts

\* A counter moved on by n, wrapped.
LEMMA Advance ==
    ASSUME NEW a \in Index, NEW n \in Index
    PROVE  /\ (a + n) % Modulus \in Index
           /\ (a + n) % Modulus = a + n \/ (a + n) % Modulus = a + n - Modulus
<1>1. a \in Nat /\ n \in Nat /\ a < Modulus /\ n < Modulus
    BY ModulusFacts DEF Index
<1>2. ASSUME a + n < Modulus
      PROVE  (a + n) % Modulus = a + n
    <2>1. a + n = (Modulus * 0) + (a + n) /\ a + n \in 0 .. Modulus - 1
        BY <1>1, <1>2, ModulusFacts
    <2> QED
        BY <2>1, ModIs, ModulusFacts
<1>3. ASSUME ~(a + n < Modulus)
      PROVE  (a + n) % Modulus = a + n - Modulus
    <2>1. /\ a + n = (Modulus * 1) + (a + n - Modulus)
          /\ a + n - Modulus \in 0 .. Modulus - 1
        BY <1>1, <1>3, ModulusFacts
    <2> QED
        BY <2>1, ModIs, ModulusFacts
<1> QED
    BY <1>1, <1>2, <1>3, ModulusFacts DEF Index

\* The writer's cells continue the reader's: the two indices describe one run of
\* cells, however often either has wrapped.
LEMMA RearCell ==
    ASSUME NEW f \in Index, NEW r \in Index, NEW u \in 0 .. Size,
           (Modulus + r - f) % Modulus = u, NEW j \in Nat
    PROVE  (r + j) % Size = (f + u + j) % Size
<1>1. f \in Nat /\ r \in Nat /\ u \in Nat /\ r \in 0 .. Modulus - 1 /\ u \in Index
    BY ModulusFacts, RingAssumption DEF Index
<1>2. r = f + u \/ r = f + u - Modulus
    BY <1>1, Apart
<1>3. f + u = (Modulus * 0) + r \/ f + u = (Modulus * 1) + r
    BY <1>1, <1>2, ModulusFacts
<1>4. (f + u) % Modulus = r
    BY <1>1, <1>3, ModIs, ModulusFacts
<1>5. f + u \in Nat
    BY <1>1
<1> QED
    BY <1>4, <1>5, WrappedCell

\* What ring_buf_put computes as left is the room there is.
LEMMA LeftIs ==
    ASSUME NEW f \in Index, NEW r \in Index, NEW u \in 0 .. Size,
           (Modulus + r - f) % Modulus = u
    PROVE  (Size + Modulus + f - r) % Modulus = Size - u
<1>1. f \in Nat /\ r \in Nat /\ u \in Index /\ Size \in Nat /\ Size - u \in 0 .. Modulus - 1
    BY ModulusFacts, RingAssumption DEF Index
<1>2. r = f + u \/ r = f + u - Modulus
    BY <1>1, Apart
<1>3. \/ Size + Modulus + f - r = (Modulus * 1) + (Size - u)
      \/ Size + Modulus + f - r = (Modulus * 2) + (Size - u)
    BY <1>1, <1>2, ModulusFacts
<1> QED
    BY <1>1, <1>3, ModIs, ModulusFacts

\* A call as it begins.
LEMMA CallIs ==
    ASSUME NEW len \in Nat, NEW from \in Nat
    PROVE  /\ Call(len, from) \in Calls
           /\ Call(len, from).active
           /\ Call(len, from).len = len
           /\ Call(len, from).done = 0
           /\ CallSane(Call(len, from), from)
<1>1. from % Size \in 0 .. Size - 1
    BY DivMod, RingAssumption
<1>2. Lesser(len, Size - (from % Size)) \in Nat
    BY <1>1, RingAssumption DEF Lesser
<1> QED
    BY <1>2 DEF Call, Calls, CallSane

\* No call.
LEMMA QuietIs == Quiet \in Calls /\ ~Quiet.active
    BY DEF Quiet, Calls

\* The elements of a sequence with one more at its end.
LEMMA AppendAt ==
    ASSUME NEW s \in Seq(Int), NEW v \in Int
    PROVE  /\ \A j \in 1 .. Len(s) : Append(s, v)[j] = s[j]
           /\ Append(s, v)[Len(s) + 1] = v
    OBVIOUS

-----------------------------------------------------------------------------
(* The invariant is inductive.                                              *)

LEMMA InitIInv == Init => IInv
<1> SUFFICES ASSUME Init PROVE IInv
    OBVIOUS
<1>1. /\ Used = 0 /\ front = 0 /\ rear = 0 /\ 0 \in Index /\ 0 \in 0 .. Size
      /\ Size \in Nat
    BY ModulusFacts, RingAssumption DEF Init, Used, Index
<1>2. TypeOK
    BY <1>1, QuietIs DEF Init, TypeOK, Unwritten
<1>3. RingLen = 0
    BY <1>1, Apart DEF RingLen
<1>4. LenExact
    BY <1>1, <1>3 DEF LenExact, FreeSpace
<1> QED
    BY <1>1, <1>2, <1>4, QuietIs
    DEF IInv, Init, Contents, PutSane, GetSane, GotInOrder, CallSane

\* A step of the writer's copy leaves every other cell alone.
LEMMA OtherCells ==
    ASSUME TypeOK, LenExact, put.active, CallSane(put, rear), put.len <= Size - Used,
           put.done < put.len
    PROVE  /\ Cell(put, rear, put.done) = (rear + put.done) % Size
           /\ Cell(put, rear, put.done) \in Cells
           /\ \A j \in 0 .. Used - 1 : (front + j) % Size # Cell(put, rear, put.done)
           /\ \A j \in 0 .. put.done - 1 : (rear + j) % Size # Cell(put, rear, put.done)
<1>1. /\ front \in Nat /\ rear \in Nat /\ front \in Index /\ rear \in Index
      /\ Used \in 0 .. Size /\ put \in Calls /\ put.len \in Nat /\ put.done \in Nat
      /\ put.len <= Size /\ Size \in Nat \ {0} /\ put.done \in 0 .. put.len - 1
      /\ (Modulus + rear - front) % Modulus = Used
    BY RingAssumption DEF TypeOK, LenExact, Index, Calls, RingLen
<1>2. /\ Cell(put, rear, put.done) = (rear + put.done) % Size
      /\ Cell(put, rear, put.done) \in Cells
    BY <1>1, CellIs DEF CallSane
<1>3. (rear + put.done) % Size = (front + (Used + put.done)) % Size
    <2>1. \A k \in Nat : (rear + k) % Size = (front + Used + k) % Size
        BY <1>1, RearCell
    <2>2. front + Used + put.done = front + (Used + put.done)
        BY <1>1
    <2> QED
        BY <1>1, <2>1, <2>2
<1>4. ASSUME NEW j \in 0 .. Used - 1
      PROVE  (front + j) % Size # Cell(put, rear, put.done)
    <2>1. j \in 0 .. Size - 1 /\ Used + put.done \in 0 .. Size - 1 /\ j # Used + put.done
        BY <1>1
    <2> QED
        BY <1>1, <1>2, <1>3, <2>1, ModInjective
<1>5. ASSUME NEW j \in 0 .. put.done - 1
      PROVE  (rear + j) % Size # Cell(put, rear, put.done)
    <2>1. j \in 0 .. Size - 1 /\ put.done \in 0 .. Size - 1 /\ j # put.done
        BY <1>1
    <2> QED
        BY <1>1, <1>2, <2>1, ModInjective
<1> QED
    BY <1>2, <1>4, <1>5

LEMMA NextIInv == IInv /\ [Next]_vars => IInv'
<1> SUFFICES ASSUME IInv, [Next]_vars PROVE IInv'
    OBVIOUS
<1> USE RingAssumption
<1>0. /\ TypeOK /\ LenExact /\ Contents /\ PutSane /\ GetSane /\ GotInOrder
      /\ front \in Nat /\ rear \in Nat /\ front \in Index /\ rear \in Index
      /\ Used \in 0 .. Size /\ Used = accepted - delivered /\ RingLen = Used
      /\ RingLen = (Modulus + rear - front) % Modulus
      /\ accepted \in Nat /\ delivered \in Nat
      /\ put \in Calls /\ put.len \in Nat /\ put.done \in Nat
      /\ get \in Calls /\ get.len \in Nat /\ get.done \in Nat
    BY DEF IInv, TypeOK, LenExact, Index, Calls, Used, RingLen
<1>1. ASSUME NEW n \in Requests, PutBegin(n) PROVE IInv'
    <2> DEFINE len == Lesser(n, Size - Used)
    <2>1. len \in Nat /\ len <= Size - Used
        BY <1>0 DEF Lesser
    <2>2. put' = Call(len, rear)
        BY <1>0, <1>1, LeftIs DEF PutBegin, Room
    <2> HIDE DEF len
    <2>3. /\ put' \in Calls /\ put'.active /\ put'.len = len /\ put'.done = 0
          /\ CallSane(put', rear)
        BY <1>0, <2>1, <2>2, CallIs
    <2>4. PutSane'
        BY <1>1, <2>1, <2>3 DEF PutBegin, PutSane, CallSane, Used
    <2> QED
        BY <1>0, <1>1, <2>3, <2>4
        DEF PutBegin, IInv, TypeOK, LenExact, RingLen, FreeSpace, Contents, GetSane,
            GotInOrder, CallSane, Used
<1>2. CASE PutCopy
    <2> DEFINE c == Cell(put, rear, put.done)
    <2>1. /\ put.active /\ put.len <= Size - Used /\ put.done < put.len
          /\ CallSane(put, rear)
        BY <1>0, <1>2 DEF PutCopy, PutSane
    <2>2. /\ c = (rear + put.done) % Size /\ c \in Cells
          /\ \A j \in 0 .. Used - 1 : (front + j) % Size # c
          /\ \A j \in 0 .. put.done - 1 : (rear + j) % Size # c
        BY <1>0, <2>1, OtherCells
    <2>3. /\ buf' = [buf EXCEPT ![c] = accepted + put.done]
          /\ put' = [put EXCEPT !.done = put.done + 1]
        BY <1>2 DEF PutCopy
    <2>4. \A d \in Cells : buf'[d] = IF d = c THEN accepted + put.done ELSE buf[d]
        BY <1>0, <2>2, <2>3 DEF TypeOK
    <2> HIDE DEF c
    <2>5. \A j \in Nat : (front + j) % Size \in Cells /\ (rear + j) % Size \in Cells
        BY <1>0, DivMod DEF Cells
    <2>6. /\ put' \in Calls /\ put'.active /\ put'.len = put.len
          /\ put'.first = put.first /\ put'.done = put.done + 1
        BY <1>0, <2>1, <2>3 DEF Calls
    <2>7. TypeOK'
        <3>1. accepted + put.done \in Int
            BY <1>0
        <3>2. buf' \in [Cells -> Int]
            BY <1>0, <2>3, <3>1 DEF TypeOK
        <3> QED
            BY <1>0, <1>2, <2>6, <3>2 DEF PutCopy, TypeOK
    <2>8. Contents'
        BY <1>0, <1>2, <2>2, <2>4, <2>5 DEF PutCopy, Contents, Used
    <2>9. PutSane'
        <3>1. CallSane(put, rear)'
            BY <1>0, <1>2, <2>1, <2>6 DEF PutCopy, CallSane
        <3>2. \A j \in 0 .. put'.done - 1 : buf'[(rear + j) % Size] = accepted + j
            <4> SUFFICES ASSUME NEW j \in 0 .. put.done
                         PROVE  buf'[(rear + j) % Size] = accepted + j
                BY <1>0, <2>6
            <4>1. j \in Nat /\ (rear + j) % Size \in Cells
                BY <1>0, <2>5
            <4>2. CASE j = put.done
                BY <2>2, <2>4, <4>1, <4>2
            <4>3. CASE j \in 0 .. put.done - 1
                BY <1>0, <2>1, <2>2, <2>4, <4>1, <4>3 DEF PutSane
            <4> QED
                BY <1>0, <4>2, <4>3
        <3> QED
            BY <1>0, <1>2, <2>1, <2>6, <3>1, <3>2 DEF PutCopy, PutSane, Used
    <2> QED
        BY <1>0, <1>2, <2>7, <2>8, <2>9
        DEF PutCopy, IInv, LenExact, RingLen, FreeSpace, GetSane, GotInOrder, CallSane, Used
<1>3. CASE PutEnd
    <2> DEFINE u == Used + put.len
    <2>1. /\ put.active /\ put.len <= Size - Used /\ put.done = put.len
          /\ u \in 0 .. Size /\ u \in Index /\ Used' = u /\ put.len \in Index
          /\ Used \in Index
        BY <1>0, <1>3, ModulusFacts DEF PutEnd, PutSane, Index, Used
    <2>2. rear' \in Index /\ (rear' = rear + put.len \/ rear' = rear + put.len - Modulus)
        BY <1>0, <1>3, <2>1, Advance DEF PutEnd, Plus
    <2>3. rear = front + Used \/ rear = front + Used - Modulus
        BY <1>0, <2>1, Apart
    <2>4. rear' = front + u \/ rear' = front + u - Modulus
        BY <1>0, <2>1, <2>2, <2>3, ModulusFacts DEF Index
    <2>5. RingLen' = u
        BY <1>0, <1>3, <2>1, <2>2, <2>4, Apart DEF PutEnd, RingLen
    <2>6. TypeOK'
        BY <1>0, <1>3, <2>2, QuietIs DEF PutEnd, TypeOK
    <2>7. LenExact'
        BY <2>1, <2>5 DEF LenExact, FreeSpace
    <2>8. Contents'
        <3>1. ASSUME NEW j \in 0 .. u - 1, ~(j < Used)
              PROVE  buf[(front + j) % Size] = delivered + j
            <4>1. j - Used \in Nat /\ j - Used \in 0 .. put.done - 1
                BY <1>0, <2>1, <3>1
            <4>2. (rear + (j - Used)) % Size = (front + Used + (j - Used)) % Size
                <5>1. \A k \in Nat : (rear + k) % Size = (front + Used + k) % Size
                    BY <1>0, RearCell
                <5> QED
                    BY <4>1, <5>1
            <4>3. front + Used + (j - Used) = front + j
                BY <1>0, <3>1
            <4>4. buf[(rear + (j - Used)) % Size] = accepted + (j - Used)
                BY <1>0, <2>1, <4>1 DEF PutSane
            <4> QED
                BY <1>0, <3>1, <4>2, <4>3, <4>4
        <3>2. \A j \in 0 .. u - 1 : buf[(front + j) % Size] = delivered + j
            BY <1>0, <3>1 DEF Contents
        <3> QED
            BY <1>3, <2>1, <3>2 DEF PutEnd, Contents
    <2>9. PutSane'
        BY <1>3, QuietIs DEF PutEnd, PutSane, CallSane
    <2>10. GetSane'
        <3>1. get.active => get.len <= u
            BY <1>0, <2>1 DEF GetSane
        <3> QED
            BY <1>0, <1>3, <2>1, <3>1 DEF PutEnd, GetSane, CallSane
    <2>11. GotInOrder'
        BY <1>0, <1>3 DEF PutEnd, GotInOrder
    <2> QED
        BY <2>6, <2>7, <2>8, <2>9, <2>10, <2>11 DEF IInv
<1>4. ASSUME NEW n \in Requests, GetBegin(n) PROVE IInv'
    <2> DEFINE len == Lesser(n, Used)
    <2>1. len \in Nat /\ len <= Used
        BY <1>0 DEF Lesser
    <2>2. get' = Call(len, front) /\ out' = <<>>
        BY <1>0, <1>4 DEF GetBegin
    <2> HIDE DEF len
    <2>3. /\ get' \in Calls /\ get'.active /\ get'.len = len /\ get'.done = 0
          /\ CallSane(get', front)
        BY <1>0, <2>1, <2>2, CallIs
    <2>4. GetSane'
        BY <1>4, <2>1, <2>3 DEF GetBegin, GetSane, CallSane, Used
    <2>5. GotInOrder'
        BY <2>2, <2>3 DEF GotInOrder
    <2> QED
        BY <1>0, <1>4, <2>2, <2>3, <2>4, <2>5
        DEF GetBegin, IInv, TypeOK, LenExact, RingLen, FreeSpace, Contents, PutSane,
            CallSane, Used
<1>5. CASE GetCopy
    <2>1. /\ get.active /\ get.len <= Used /\ get.done < get.len /\ CallSane(get, front)
          /\ get.done \in 0 .. get.len - 1 /\ get.len <= Size
        BY <1>0, <1>5, SMTT(30) DEF GetCopy, GetSane
    <2>2. Cell(get, front, get.done) = (front + get.done) % Size
        BY <1>0, <2>1, CellIs DEF CallSane
    <2>3. buf[Cell(get, front, get.done)] = delivered + get.done
        BY <1>0, <2>1, <2>2 DEF Contents
    <2>4. /\ get' \in Calls /\ get'.active /\ get'.len = get.len
          /\ get'.first = get.first /\ get'.done = get.done + 1
        <3>1. get' = [get EXCEPT !.done = get.done + 1]
            BY <1>5 DEF GetCopy
        <3> QED
            BY <1>0, <2>1, <3>1 DEF Calls
    <2>5. out' = Append(out, delivered + get.done) /\ out \in Seq(Int) /\ Len(out) = get.done
        BY <1>0, <1>5, <2>1, <2>3 DEF GetCopy, TypeOK, GotInOrder
    <2>6. TypeOK'
        BY <1>0, <1>5, <2>4, <2>5, SMTT(30) DEF GetCopy, TypeOK
    <2>7. GotInOrder'
        <3>1. \A j \in 1 .. Len(out) : out[j] = delivered + j - 1
            BY <1>0, <2>1 DEF GotInOrder
        <3>2. Len(out') = get.done + 1 /\ delivered + get.done \in Int
            BY <1>0, <2>5
        <3>3. ASSUME NEW j \in 1 .. Len(out')
              PROVE  out'[j] = delivered + j - 1
            <4>1. CASE j \in 1 .. Len(out)
                BY <2>5, <3>1, <3>2, <4>1, AppendAt
            <4>2. CASE j = get.done + 1
                <5>1. out'[Len(out) + 1] = delivered + get.done
                    BY <2>5, <3>2, AppendAt
                <5> QED
                    BY <2>5, <3>2, <4>2, <5>1
            <4> QED
                BY <2>1, <2>5, <3>2, <4>1, <4>2
        <3> QED
            BY <1>0, <1>5, <2>4, <3>2, <3>3 DEF GetCopy, GotInOrder
    <2>8. GetSane'
        <3>1. front' = front /\ accepted' = accepted /\ delivered' = delivered
            BY <1>5 DEF GetCopy
        <3>2. get.done + 1 <= get.len
            BY <1>0, <2>1
        <3> QED
            BY <2>1, <2>4, <3>1, <3>2 DEF GetSane, CallSane, Used
    <2> QED
        BY <1>0, <1>5, <2>6, <2>7, <2>8
        DEF GetCopy, IInv, LenExact, RingLen, FreeSpace, Contents, PutSane, CallSane, Used
<1>6. CASE GetEnd
    <2> DEFINE u == Used - get.len
    <2>1. /\ get.active /\ get.len <= Used /\ u \in 0 .. Size /\ u \in Index /\ Used' = u
          /\ get.len \in Index /\ Used \in Index
        BY <1>0, <1>6, ModulusFacts DEF GetEnd, GetSane, Index, Used
    <2>2. /\ front' = (front + get.len) % Modulus /\ front' \in Index
          /\ front' = front + get.len \/ front' = front + get.len - Modulus
        BY <1>0, <1>6, <2>1, Advance DEF GetEnd, Plus
    <2>3. rear = front + Used \/ rear = front + Used - Modulus
        BY <1>0, <2>1, Apart
    <2>4. rear = front' + u \/ rear = front' + u - Modulus
        <3>1. /\ front' \in Nat /\ rear \in Nat /\ rear < Modulus /\ Modulus \in Nat
              /\ Used \in Nat /\ get.len \in Nat /\ get.len <= Used /\ front \in Nat
            BY <1>0, <2>1, <2>2, ModulusFacts DEF Index
        <3>2. front' = front + get.len \/ front' = front + get.len - Modulus
            BY <2>2
        <3>3. \/ rear = front' + (Used - get.len)
              \/ rear = front' + (Used - get.len) - Modulus
            BY <2>3, <3>1, <3>2
        <3> QED
            BY <3>3
    <2>5. RingLen' = u
        BY <1>0, <1>6, <2>1, <2>2, <2>4, Apart DEF GetEnd, RingLen
    <2>6. TypeOK'
        BY <1>0, <1>6, <2>2, QuietIs DEF GetEnd, TypeOK
    <2>7. LenExact'
        BY <2>1, <2>5 DEF LenExact, FreeSpace
    <2>8. Contents'
        <3>1. ASSUME NEW j \in 0 .. u - 1
              PROVE  buf[(front' + j) % Size] = delivered + get.len + j
            <4>1. j \in Nat /\ front + get.len \in Nat /\ get.len + j \in 0 .. Used - 1
                BY <1>0, <2>1
            <4>2. (front' + j) % Size = (front + get.len + j) % Size
                BY <2>2, <4>1, WrappedCell
            <4>3. front + get.len + j = front + (get.len + j)
                BY <1>0
            <4>4. buf[(front + (get.len + j)) % Size] = delivered + (get.len + j)
                BY <1>0, <4>1 DEF Contents
            <4> QED
                BY <1>0, <4>1, <4>2, <4>3, <4>4
        <3> QED
            BY <1>6, <2>1, <3>1 DEF GetEnd, Contents
    <2>9. PutSane'
        <3>1. Size - Used <= Size - u
            BY <1>0, <2>1
        <3>2. put.active => put.len <= Size - u
            BY <1>0, <2>1, <3>1 DEF PutSane
        <3> QED
            BY <1>0, <1>6, <2>1, <3>2 DEF GetEnd, PutSane, CallSane
    <2>10. GetSane' /\ GotInOrder'
        BY <1>6, QuietIs DEF GetEnd, GetSane, GotInOrder, CallSane
    <2> QED
        BY <2>6, <2>7, <2>8, <2>9, <2>10 DEF IInv
<1>7. CASE Clear
    <2>1. /\ Used' = 0 /\ 0 \in Index /\ 0 \in 0 .. Size /\ front' = 0 /\ rear' = 0
        BY <1>0, <1>7, ModulusFacts DEF Clear, Used, Index
    <2>2. RingLen' = 0
        BY <2>1, Apart DEF RingLen
    <2>3. LenExact'
        BY <2>1, <2>2 DEF LenExact, FreeSpace
    <2> QED
        BY <1>0, <1>7, <2>1, <2>3
        DEF Clear, IInv, TypeOK, Contents, PutSane, GetSane, GotInOrder, CallSane
<1>8. CASE UNCHANGED vars
    BY <1>0, <1>8
    DEF vars, IInv, TypeOK, LenExact, RingLen, FreeSpace, Contents, PutSane, GetSane,
        GotInOrder, CallSane, Used
<1> QED
    BY <1>1, <1>2, <1>3, <1>4, <1>5, <1>6, <1>7, <1>8 DEF Next, Writer, Reader

-----------------------------------------------------------------------------
(* The theorems.                                                            *)

\* The inductive invariant holds throughout every behaviour of the ring.
THEOREM Inductive == Spec => []IInv
<1>1. Init => IInv
    BY InitIInv
<1>2. IInv /\ [Next]_vars => IInv'
    BY NextIInv
<1> QED
    BY <1>1, <1>2, PTL DEF Spec

\* Type correctness of the ring and of the locals of its two calls.
THEOREM TypeCorrect == Spec => []TypeOK
<1>1. IInv => TypeOK
    BY DEF IInv
<1> QED
    BY <1>1, Inductive, PTL

\* ring_buf_len and ring_buf_free_space are exact however often the two unsigned
\* counters have wrapped, when the ring is full too.
THEOREM LengthsExact == Spec => []LenExact
<1>1. IInv => LenExact
    BY DEF IInv
<1> QED
    BY <1>1, Inductive, PTL

\* ring_buf_get hands out the oldest bytes in the order they were put, whatever
\* ring_buf_put does meanwhile.
THEOREM GetsInOrder == Spec => []GotInOrder
<1>1. IInv => GotInOrder
    BY DEF IInv
<1> QED
    BY <1>1, Inductive, PTL

\* The two copies under way at the same time touch different cells: the ring
\* needs no lock.
THEOREM RaceFree == Spec => []NoRace
<1>1. IInv => NoRace
    <2> SUFFICES ASSUME IInv, put.active, get.active,
                        NEW i \in put.done .. put.len - 1, NEW j \in get.done .. get.len - 1
                 PROVE  Cell(put, rear, i) # Cell(get, front, j)
        BY DEF NoRace
    <2> USE RingAssumption
    <2>1. /\ front \in Nat /\ rear \in Nat /\ front \in Index /\ rear \in Index
          /\ Used \in 0 .. Size /\ (Modulus + rear - front) % Modulus = Used
          /\ put \in Calls /\ put.len \in Nat /\ put.done \in Nat
          /\ get \in Calls /\ get.len \in Nat /\ get.done \in Nat
        BY DEF IInv, TypeOK, LenExact, RingLen, Index, Calls
    <2>2. /\ put.len <= Size - Used /\ CallSane(put, rear)
          /\ get.len <= Used /\ CallSane(get, front)
        BY DEF IInv, PutSane, GetSane
    <2>3. /\ i \in 0 .. put.len - 1 /\ i \in Nat /\ put.len <= Size
          /\ j \in 0 .. get.len - 1 /\ j \in Nat /\ get.len <= Size
        BY <2>1, <2>2
    <2>4. Cell(put, rear, i) = (rear + i) % Size
        BY <2>1, <2>2, <2>3, CellIs DEF CallSane
    <2>5. Cell(get, front, j) = (front + j) % Size
        BY <2>1, <2>2, <2>3, CellIs DEF CallSane
    <2>6. (rear + i) % Size = (front + (Used + i)) % Size
        <3>1. (rear + i) % Size = (front + Used + i) % Size
            BY <2>1, <2>3, RearCell
        <3>2. front + Used + i = front + (Used + i)
            BY <2>1, <2>3
        <3> QED
            BY <3>1, <3>2
    <2>7. Used + i \in 0 .. Size - 1 /\ j \in 0 .. Size - 1 /\ j # Used + i
        BY <2>1, <2>2, <2>3
    <2> QED
        BY <2>1, <2>4, <2>5, <2>6, <2>7, ModInjective
<1> QED
    BY <1>1, Inductive, PTL

-----------------------------------------------------------------------------
\* n bytes of the stream, from number a on.
Stretch(n, a) == [j \in 1 .. n |-> a + j - 1]

-----------------------------------------------------------------------------
(* Stretches as sequences.                                                  *)

LEMMA StretchIs ==
    ASSUME NEW n \in Nat, NEW a \in Nat
    PROVE  /\ Stretch(n, a) \in Seq(Int)
           /\ Len(Stretch(n, a)) = n
           /\ \A j \in 1 .. n : Stretch(n, a)[j] = a + j - 1
<1>1. Stretch(n, a) \in [1 .. n -> Int]
    BY DEF Stretch
<1>2. Stretch(n, a) \in Seq(Int)
    BY <1>1, SeqDef
<1>3. DOMAIN Stretch(n, a) = 1 .. n /\ DOMAIN Stretch(n, a) = 1 .. Len(Stretch(n, a))
    BY <1>1, <1>2, LenProperties
<1>4. Len(Stretch(n, a)) \in Nat
    BY <1>2, LenProperties
<1>5. Len(Stretch(n, a)) = n
    BY <1>3, <1>4
<1> QED
    BY <1>2, <1>5 DEF Stretch

\* A sequence is the stretch that its length and elements say.
LEMMA IsStretch ==
    ASSUME NEW s \in Seq(Int), NEW a \in Nat, \A j \in 1 .. Len(s) : s[j] = a + j - 1
    PROVE  s = Stretch(Len(s), a)
<1>1. Len(s) \in Nat
    BY LenProperties
<1> QED
    BY <1>1, StretchIs, SeqEqual

\* Adjoining stretches are one.
LEMMA StretchConcat ==
    ASSUME NEW m \in Nat, NEW n \in Nat, NEW a \in Nat
    PROVE  Stretch(m, a) \o Stretch(n, a + m) = Stretch(m + n, a)
<1> DEFINE left == Stretch(m, a)
           right == Stretch(n, a + m)
<1>1. /\ left \in Seq(Int) /\ Len(left) = m /\ \A j \in 1 .. m : left[j] = a + j - 1
      /\ right \in Seq(Int) /\ Len(right) = n /\ \A j \in 1 .. n : right[j] = a + m + j - 1
    <2>1. a + m \in Nat
        OBVIOUS
    <2>2. /\ left \in Seq(Int) /\ Len(left) = m
          /\ \A j \in 1 .. m : left[j] = a + j - 1
        BY StretchIs
    <2>3. /\ right \in Seq(Int) /\ Len(right) = n
          /\ \A j \in 1 .. n : right[j] = (a + m) + j - 1
        BY <2>1, StretchIs
    <2> QED
        BY <2>2, <2>3
<1> HIDE DEF left, right
<1>2. /\ left \o right \in Seq(Int)
      /\ Len(left \o right) = m + n
      /\ \A i \in 1 .. m + n :
            (left \o right)[i] = IF i <= m THEN left[i] ELSE right[i - m]
    BY <1>1, ConcatProperties
<1>3. ASSUME NEW i \in 1 .. m + n PROVE (left \o right)[i] = a + i - 1
    BY <1>1, <1>2
<1>4. left \o right = Stretch(m + n, a)
    BY <1>2, <1>3, IsStretch
<1> QED
    BY <1>4 DEF left, right

\* A part of a stretch is one.
LEMMA StretchPart ==
    ASSUME NEW n \in Nat, NEW a \in Nat, NEW p \in 1 .. n + 1, NEW q \in p - 1 .. n
    PROVE  SubSeq(Stretch(n, a), p, q) = Stretch(q - p + 1, a + p - 1)
<1> DEFINE whole == Stretch(n, a)
           part == SubSeq(whole, p, q)
<1>1. \A j \in 1 .. n : whole[j] \in Int /\ whole[j] = a + j - 1
    BY StretchIs
<1> HIDE DEF whole
<1>2. /\ part \in Seq(Int)
      /\ Len(part) = IF p <= q THEN q - p + 1 ELSE 0
      /\ \A i \in 1 .. q - p + 1 : part[i] = whole[p + i - 1]
    BY <1>1, SubSeqProperties
<1> HIDE DEF part
<1>3. Len(part) = q - p + 1
    BY <1>2
<1>4. ASSUME NEW i \in 1 .. Len(part) PROVE part[i] = (a + p - 1) + i - 1
    BY <1>1, <1>2, <1>3
<1>5. a + p - 1 \in Nat
    OBVIOUS
<1> HIDE DEF part
<1>6. part = Stretch(Len(part), a + p - 1)
    BY <1>2, <1>4, <1>5, IsStretch
<1> QED
    BY <1>3, <1>6 DEF part, whole

\* What the first q bytes are.
LEMMA StretchPrefix ==
    ASSUME NEW n \in Nat, NEW a \in Nat, NEW q \in 0 .. n
    PROVE  SubSeq(Stretch(n, a), 1, q) = Stretch(q, a)
<1> DEFINE p == 1
<1>1. p \in 1 .. n + 1 /\ q \in p - 1 .. n /\ q - p + 1 = q /\ a + p - 1 = a
    OBVIOUS
<1> HIDE DEF p
<1>2. SubSeq(Stretch(n, a), p, q) = Stretch(q - p + 1, a + p - 1)
    BY <1>1, StretchPart
<1> QED
    BY <1>1, <1>2 DEF p

\* No bytes are no bytes, wherever they start.
LEMMA StretchEmpty ==
    ASSUME NEW a \in Nat
    PROVE  Stretch(0, a) = <<>>
BY StretchIs, EmptySeq

-----------------------------------------------------------------------------
(* The refinement.                                                          *)

\* What the FIFO holds are the bytes accepted and not delivered.
LEMMA StoredIs ==
    ASSUME IInv
    PROVE  /\ Stored = Stretch(Used, delivered)
           /\ Used \in Nat /\ Used <= Size
           /\ Len(Stored) = Used
<1>1. RingLen = Used /\ Used \in 0 .. Size /\ Size \in Nat /\ front \in Nat /\ delivered \in Nat
    BY RingAssumption, ModulusFacts DEF IInv, TypeOK, LenExact, Index
<1>2. \A j \in 1 .. Used : buf[(front + j - 1) % Size] = delivered + j - 1
    <2>1. ASSUME NEW j \in 1 .. Used
          PROVE  buf[(front + j - 1) % Size] = delivered + j - 1
        <3>1. j - 1 \in 0 .. Used - 1 /\ front + j - 1 = front + (j - 1)
            BY <1>1
        <3>2. buf[(front + (j - 1)) % Size] = delivered + (j - 1)
            BY <3>1 DEF IInv, Contents
        <3> QED
            BY <1>1, <3>1, <3>2
    <2> QED
        BY <2>1
<1>3. Stored = Stretch(Used, delivered)
    BY <1>1, <1>2 DEF Stored, Stretch
<1> QED
    BY <1>1, <1>3, StretchIs

\* The initial ring is an empty FIFO.
LEMMA InitFifo == Init => Fifo!FifoInit
<1> SUFFICES ASSUME Init PROVE Fifo!FifoInit
    OBVIOUS
<1>1. IInv
    BY InitIInv
<1>2. Used = 0 /\ delivered = 0
    BY DEF Init, Used
<1>3. Stored = <<>>
    BY <1>1, <1>2, StoredIs, StretchEmpty
<1> QED
    BY <1>3 DEF Init, Quiet, Fifo!FifoInit, Fifo!Idle

\* Every step is a step of the FIFO or invisible to it.
LEMMA NextFifo ==
    ASSUME IInv, IInv', [Next]_vars
    PROVE  [FifoNext]_(Fifo!fifoVars)
<1>1. /\ Stored = Stretch(Used, delivered) /\ Used \in Nat /\ Used <= Size /\ Len(Stored) = Used
      /\ Stored' = Stretch(Used', delivered') /\ Used' \in Nat
    <2>1. (/\ Stored = Stretch(Used, delivered) /\ Used \in Nat)'
        BY StoredIs, PTL
    <2> QED
        BY <2>1, StoredIs
<1>2. /\ Size \in Nat /\ accepted \in Nat /\ delivered \in Nat
      /\ Used = accepted - delivered /\ Used' = accepted' - delivered'
      /\ put.len \in Nat /\ get.len \in Nat /\ get.done \in Nat
    BY RingAssumption DEF IInv, TypeOK, Calls, Used
<1>3. ASSUME NEW n \in Requests, PutBegin(n)
      PROVE  Fifo!PutStart(n)
    <2>1. Room = Size - Used
        BY LeftIs DEF IInv, TypeOK, LenExact, RingLen, Room
    <2>2. Lesser(n, Room) \in Nat
        BY <1>1, <1>2, <2>1, RingAssumption DEF Lesser
    <2>3. put'.active /\ put'.len = Lesser(n, Room) /\ ~put.active
        BY <1>3 DEF PutBegin, Call
    <2>4. Stored' = Stored
        BY <1>1, <1>2, <1>3 DEF PutBegin
    <2> QED
        BY <1>1, <1>3, <2>1, <2>3, <2>4
        DEF PutBegin, Fifo!PutStart, Fifo!Idle, Fifo!Lesser, Lesser
<1>4. ASSUME PutCopy
      PROVE  UNCHANGED Fifo!fifoVars
    <2>1. Stored' = Stored
        BY <1>1, <1>2, <1>4 DEF PutCopy
    <2>2. put'.active = put.active /\ put'.len = put.len
        BY <1>4 DEF PutCopy, IInv, TypeOK, Calls
    <2> QED
        BY <1>4, <2>1, <2>2 DEF PutCopy, Fifo!fifoVars
<1>5. ASSUME PutEnd
      PROVE  Fifo!PutFinish([j \in 1 .. put.len |-> accepted + j - 1])
    <2> DEFINE data == [j \in 1 .. put.len |-> accepted + j - 1]
    <2>1. data = Stretch(put.len, accepted)
        BY DEF Stretch
    <2> HIDE DEF data
    <2>2. SubSeq(data, 1, put.len) = Stretch(put.len, accepted)
        <3>1. put.len \in 0 .. put.len
            BY <1>2
        <3> QED
            BY <1>2, <2>1, <3>1, StretchPrefix
    <2>3. Stored' = Stored \o SubSeq(data, 1, put.len)
        <3>1. Used' = Used + put.len /\ delivered' = delivered /\ accepted = delivered + Used
            BY <1>1, <1>2, <1>5 DEF PutEnd
        <3>2. Stretch(Used, delivered) \o Stretch(put.len, delivered + Used)
                  = Stretch(Used + put.len, delivered)
            <4>1. Used \in Nat /\ put.len \in Nat /\ delivered \in Nat
                BY <1>1, <1>2
            <4> QED
                BY <4>1, StretchConcat, Zenon
        <3> QED
            BY <1>1, <2>2, <3>1, <3>2
    <2>4. put.active /\ ~put'.active /\ put.len # -1
        BY <1>2, <1>5 DEF PutEnd, Quiet
    <2> QED
        BY <1>5, <2>3, <2>4 DEF PutEnd, data, Fifo!PutFinish, Fifo!Idle
<1>6. ASSUME NEW n \in Requests, GetBegin(n)
      PROVE  Fifo!GetStart(n)
    <2>1. RingLen = Used
        BY DEF IInv, LenExact
    <2>2. get'.active /\ get'.len = Lesser(n, RingLen) /\ ~get.active
        BY <1>6 DEF GetBegin, Call
    <2>3. Stored' = Stored
        BY <1>1, <1>2, <1>6 DEF GetBegin
    <2> QED
        BY <1>1, <1>6, <2>1, <2>2, <2>3
        DEF GetBegin, Fifo!GetStart, Fifo!Idle, Fifo!Lesser, Lesser
<1>7. ASSUME GetCopy
      PROVE  UNCHANGED Fifo!fifoVars
    <2>1. Stored' = Stored
        BY <1>1, <1>2, <1>7 DEF GetCopy
    <2>2. get.active /\ get'.active /\ get'.len = get.len
        BY <1>7 DEF GetCopy, IInv, TypeOK, Calls
    <2> QED
        BY <1>7, <2>1, <2>2 DEF GetCopy, Fifo!fifoVars
<1>8. ASSUME GetEnd
      PROVE  Fifo!GetFinish
    <2>1. /\ get.active /\ ~get'.active /\ get.len <= Used
          /\ out \in Seq(Int) /\ Len(out) = get.len
          /\ \A j \in 1 .. Len(out) : out[j] = delivered + j - 1
        BY <1>8 DEF GetEnd, Quiet, IInv, TypeOK, GetSane, GotInOrder
    <2>2. out = SubSeq(Stored, 1, get.len)
        <3>1. out = Stretch(get.len, delivered)
            BY <1>2, <2>1, IsStretch
        <3>2. SubSeq(Stretch(Used, delivered), 1, get.len) = Stretch(get.len, delivered)
            <4>1. get.len \in 0 .. Used
                BY <1>1, <1>2, <2>1
            <4> QED
                BY <1>1, <1>2, <4>1, StretchPrefix
        <3> QED
            BY <1>1, <3>1, <3>2
    <2>3. Stored' = SubSeq(Stored, get.len + 1, Len(Stored))
        <3>1. Used' = Used - get.len /\ delivered' = delivered + get.len
            BY <1>1, <1>2, <1>8 DEF GetEnd
        <3> DEFINE p == get.len + 1
        <3>2. p \in 1 .. Used + 1 /\ Used \in p - 1 .. Used
            BY <1>1, <1>2, <2>1
        <3>3. Used - p + 1 = Used - get.len /\ delivered + p - 1 = delivered + get.len
            BY <1>1, <1>2
        <3> HIDE DEF p
        <3>4. SubSeq(Stretch(Used, delivered), p, Used) = Stretch(Used - p + 1, delivered + p - 1)
            <4>1. Used \in Nat /\ delivered \in Nat
                BY <1>1, <1>2
            <4> QED
                BY <3>2, <4>1, StretchPart, Zenon
        <3>5. SubSeq(Stored, p, Len(Stored)) = Stretch(Used - get.len, delivered + get.len)
            BY <1>1, <3>3, <3>4
        <3> QED
            BY <1>1, <3>1, <3>5 DEF p
    <2>4. /\ (IF get.active THEN get.len ELSE -1) = get.len
          /\ (IF get'.active THEN get'.len ELSE -1) = -1
          /\ (IF get'.active THEN <<>> ELSE out') = out
          /\ put' = put
        BY <1>8, <2>1 DEF GetEnd
    <2>5. get.len # -1
        BY <1>2
    <2> QED
        BY <2>2, <2>3, <2>4, <2>5 DEF Fifo!GetFinish, Fifo!Idle
<1>9. ASSUME Clear
      PROVE  Fifo!Empty
    <2>1. Used' = 0 /\ delivered' \in Nat
        BY <1>2, <1>9 DEF Clear
    <2>2. Stored' = <<>>
        BY <1>1, <2>1, StretchEmpty
    <2> QED
        BY <1>9, <2>2 DEF Clear, Fifo!Empty, Fifo!Idle
<1>10. ASSUME UNCHANGED vars
       PROVE  UNCHANGED Fifo!fifoVars
    <2>1. Stored' = Stored
        BY <1>1, <1>2, <1>10 DEF vars
    <2> QED
        BY <1>10, <2>1 DEF vars, Fifo!fifoVars
<1> QED
    BY <1>3, <1>4, <1>5, <1>6, <1>7, <1>8, <1>9, <1>10 DEF Next, Writer, Reader, FifoNext

\* Every behaviour of the ring is one of the bounded FIFO, whatever the size, the
\* width of the counters and the requests of the two callers.
THEOREM RingIsFifo == Spec => ImplementsFifo
<1>1. Init => Fifo!FifoInit
    BY InitFifo
<1>2. IInv /\ IInv' /\ [Next]_vars => [FifoNext]_(Fifo!fifoVars)
    BY NextFifo
<1> QED
    BY <1>1, <1>2, Inductive, PTL DEF Spec, ImplementsFifo
=============================================================================
