----------------------------- MODULE RingBuffer -----------------------------
(***************************************************************************)
(* ringbuffer.c: the lock-free byte ring between the thread that issues    *)
(* commands (ring_buf_put) and the thread that owns the socket             *)
(* (ring_buf_get).                                                         *)
(*                                                                         *)
(* front and rear are free-running unsigned ints: they wrap at Modulus,    *)
(* 2^32 in the program, and the cell they name is their value modulo Size  *)
(* (the code masks with size-1, which is the same because size is a power  *)
(* of two).  Modulus is Size * Turns: a power of two divides 2^32, and     *)
(* nothing here depends on more than that.                                 *)
(*                                                                         *)
(* A step is one access to memory the two threads share.  The compiled     *)
(* code reads the other side's index once, copies, and only then stores    *)
(* its own index, and x86 keeps that order, so the interleavings of these  *)
(* steps are what the build can do.  memcpy is one step per byte.          *)
(*                                                                         *)
(* The ring never looks at a byte, so a byte is its number in the stream   *)
(* of bytes ever accepted: accepted and delivered are history variables.   *)
(***************************************************************************)
EXTENDS Integers, Sequences

CONSTANTS
    Size,        \* r->size
    Turns,       \* laps of the ring before front and rear wrap to 0
    Requests,    \* lengths the callers ask for
    MaxBytes     \* bound: bytes accepted in a behaviour

Modulus == Size * Turns

ASSUME RingAssumption ==
    /\ Size \in Nat \ {0}
    /\ Turns \in Nat \ {0, 1}
    /\ Requests \subseteq Nat
    /\ MaxBytes \in Nat

VARIABLES
    buf,         \* r->buf
    front,       \* r->front, stored by the reader only
    rear,        \* r->rear, stored by the writer only
    put,         \* locals of the ring_buf_put under way
    get,         \* locals of the ring_buf_get under way
    out,         \* the caller's buffer ring_buf_get fills
    accepted,    \* history: bytes stored by completed puts
    delivered    \* history: bytes removed by completed gets

vars == <<buf, front, rear, put, get, out, accepted, delivered>>

Cells == 0 .. Size - 1
Index == 0 .. Modulus - 1

Unwritten == -1

Lesser(a, b) == IF a < b THEN a ELSE b

\* Slips.  An operator named after another one and its mistake is that operator
\* as a plausible slip would have it.  No action uses it; with it in the place of
\* the right one a property of this module fails.
RingLenSigned == rear - front
PlusUnwrapped(index, n) == index + n
RoomOffByOne == ((Size + Modulus + front - rear) % Modulus) + 1
CallUnmasked(len, from) ==
    [active |-> TRUE, len |-> len, first |-> Lesser(len, Size - from), done |-> 0]

\* ring_buf_len and ring_buf_free_space: unsigned subtraction, modulo Modulus
RingLen == (Modulus + rear - front) % Modulus
FreeSpace == Size - RingLen

\* left of ring_buf_put, and the addition to an index.
Room == (Size + Modulus + front - rear) % Modulus
Plus(index, n) == (index + n) % Modulus

\* The locals of a call: whether one is under way, its length after the cut to
\* what fits (len), the length of its first memcpy (first), bytes copied so far.
Quiet == [active |-> FALSE, len |-> 0, first |-> 0, done |-> 0]

Call(len, from) ==
    [active |-> TRUE, len |-> len, first |-> Lesser(len, Size - (from % Size)), done |-> 0]

\* The cell the call's byte number j goes to or comes from: the first memcpy
\* starts at the masked index, the second at the start of the buffer.
Cell(call, from, j) == IF j < call.first THEN (from % Size) + j ELSE j - call.first

Init ==
    /\ buf = [c \in Cells |-> Unwritten]
    /\ front = 0
    /\ rear = 0
    /\ put = Quiet
    /\ get = Quiet
    /\ out = <<>>
    /\ accepted = 0
    /\ delivered = 0

-----------------------------------------------------------------------------
\* ring_buf_put: the room left, then the two lengths.
PutBegin(n) ==
    /\ ~put.active
    /\ accepted + n <= MaxBytes
    /\ put' = Call(Lesser(n, Room), rear)
    /\ UNCHANGED <<buf, front, rear, get, out, accepted, delivered>>

PutCopy ==
    /\ put.active
    /\ put.done < put.len
    /\ buf' = [buf EXCEPT ![Cell(put, rear, put.done)] = accepted + put.done]
    /\ put' = [put EXCEPT !.done = @ + 1]
    /\ UNCHANGED <<front, rear, get, out, accepted, delivered>>

\* Slip: the index is stored before the bytes are.
PutEndEarly ==
    /\ put.active
    /\ rear' = Plus(rear, put.len)
    /\ accepted' = accepted + put.len
    /\ put' = Quiet
    /\ UNCHANGED <<buf, front, get, out, delivered>>

\* r->rear += len
PutEnd ==
    /\ put.active
    /\ put.done = put.len
    /\ rear' = Plus(rear, put.len)
    /\ accepted' = accepted + put.len
    /\ put' = Quiet
    /\ UNCHANGED <<buf, front, get, out, delivered>>

\* ring_buf_get: left = rear - front, then the two lengths.
GetBegin(n) ==
    /\ ~get.active
    /\ get' = Call(Lesser(n, RingLen), front)
    /\ out' = <<>>
    /\ UNCHANGED <<buf, front, rear, put, accepted, delivered>>

GetCopy ==
    /\ get.active
    /\ get.done < get.len
    /\ out' = Append(out, buf[Cell(get, front, get.done)])
    /\ get' = [get EXCEPT !.done = @ + 1]
    /\ UNCHANGED <<buf, front, rear, put, accepted, delivered>>

\* r->front += len
GetEnd ==
    /\ get.active
    /\ get.done = get.len
    /\ front' = Plus(front, get.len)
    /\ delivered' = delivered + get.len
    /\ get' = Quiet
    /\ UNCHANGED <<buf, rear, put, out, accepted>>

\* ring_buf_clr, which stores both indices and so needs both callers away.
Clear ==
    /\ ~put.active
    /\ ~get.active
    /\ front' = 0
    /\ rear' = 0
    /\ delivered' = accepted
    /\ UNCHANGED <<buf, put, get, out, accepted>>

Writer == (\E n \in Requests : PutBegin(n)) \/ PutCopy \/ PutEnd
Reader == (\E n \in Requests : GetBegin(n)) \/ GetCopy \/ GetEnd

Next == Writer \/ Reader \/ Clear

Spec == Init /\ [][Next]_vars

-----------------------------------------------------------------------------
Used == accepted - delivered

Calls == [active : BOOLEAN, len : Nat, first : Nat, done : Nat]

\* The types of the ring, of the locals of its two calls and of the history.
TypeOK ==
    /\ buf \in [Cells -> Int]
    /\ front \in Index
    /\ rear \in Index
    /\ put \in Calls
    /\ get \in Calls
    /\ out \in Seq(Int)
    /\ accepted \in Nat
    /\ delivered \in Nat

\* The two indices, wrapped any number of times, still tell how many bytes are
\* stored, a full ring included: ring_buf_len and ring_buf_free_space are exact.
LenExact ==
    /\ Used \in 0 .. Size
    /\ RingLen = Used
    /\ FreeSpace = Size - Used

\* The bytes stored lie in consecutive cells from front on, in order.
Contents == \A j \in 0 .. Used - 1 : buf[(front + j) % Size] = delivered + j

\* A call under way keeps within the ring, and has copied what it counts.
CallSane(call, from) ==
    call.active => /\ call.first = Lesser(call.len, Size - (from % Size))
                   /\ call.done <= call.len

PutSane ==
    /\ CallSane(put, rear)
    /\ put.active => /\ put.len <= Size - Used
                     /\ \A j \in 0 .. put.done - 1 : buf[(rear + j) % Size] = accepted + j

\* The bytes ring_buf_get hands to its caller are the oldest ones stored, in
\* the order they were put, whatever the writer does while it copies them.
GotInOrder ==
    get.active => /\ Len(out) = get.done
                  /\ \A j \in 1 .. Len(out) : out[j] = delivered + j - 1

GetSane ==
    /\ CallSane(get, front)
    /\ get.active => get.len <= Used

\* The inductive invariant.
IInv == TypeOK /\ LenExact /\ Contents /\ PutSane /\ GetSane /\ GotInOrder

\* No cell is written by the writer's memcpy while the reader's still has to
\* read it: the two calls, which take no lock, never touch the same byte.
NoRace ==
    put.active /\ get.active =>
        \A i \in put.done .. put.len - 1, j \in get.done .. get.len - 1 :
            Cell(put, rear, i) # Cell(get, front, j)

-----------------------------------------------------------------------------
\* The FIFO this ring implements.
Stored == [j \in 1 .. RingLen |-> buf[(front + j - 1) % Size]]

Fifo == INSTANCE ByteFifo WITH
    Capacity <- Size,
    queue <- Stored,
    putting <- IF put.active THEN put.len ELSE -1,
    getting <- IF get.active THEN get.len ELSE -1,
    out <- IF get.active THEN <<>> ELSE out

FifoNext ==
    \/ \E n \in Requests : Fifo!PutStart(n) \/ Fifo!GetStart(n)
    \/ Fifo!PutFinish([j \in 1 .. put.len |-> accepted + j - 1])
    \/ Fifo!GetFinish
    \/ Fifo!Empty

\* Every behaviour of the ring is one of the bounded FIFO: a put stores the
\* prefix that fitted when it looked, a get removes exactly what was stored when
\* it looked, and copying a byte is invisible.
ImplementsFifo == Fifo!FifoInit /\ [][FifoNext]_(Fifo!fifoVars)
=============================================================================
