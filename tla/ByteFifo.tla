------------------------------ MODULE ByteFifo ------------------------------
(***************************************************************************)
(* What the transmit ring of the gateway client promises its two users: a  *)
(* bounded FIFO of bytes between one writer and one reader.                *)
(*                                                                         *)
(* Both operations take two steps, as any implementation without a lock    *)
(* must.  A put first looks at the room left and so commits itself to a    *)
(* number of bytes, and later appends that many; a get first looks at what *)
(* is stored and later removes that much.  In between, the other side may  *)
(* only make more room, or store more.                                     *)
(*                                                                         *)
(* RingBuffer implements this module; GatewayClient is built on it.        *)
(***************************************************************************)
EXTENDS Integers, Sequences

CONSTANT Capacity        \* bytes the queue can hold

ASSUME CapacityAssumption == Capacity \in Nat \ {0}

VARIABLES
    queue,       \* the bytes stored, oldest first
    putting,     \* bytes a put under way is going to append, Idle if there is none
    getting,     \* bytes a get under way is going to remove, Idle if there is none
    out          \* what the last completed get handed to its caller

fifoVars == <<queue, putting, getting, out>>

Idle == -1

Lesser(a, b) == IF a < b THEN a ELSE b

FifoInit ==
    /\ queue = <<>>
    /\ putting = Idle
    /\ getting = Idle
    /\ out = <<>>

\* A put of n bytes sees the room left and keeps to it: what does not fit is
\* not stored.
PutStart(n) ==
    /\ putting = Idle
    /\ putting' = Lesser(n, Capacity - Len(queue))
    /\ UNCHANGED <<queue, getting, out>>

PutFinish(data) ==
    /\ putting # Idle
    /\ queue' = queue \o SubSeq(data, 1, putting)
    /\ putting' = Idle
    /\ UNCHANGED <<getting, out>>

GetStart(n) ==
    /\ getting = Idle
    /\ getting' = Lesser(n, Len(queue))
    /\ out' = <<>>
    /\ UNCHANGED <<queue, putting>>

GetFinish ==
    /\ getting # Idle
    /\ out' = SubSeq(queue, 1, getting)
    /\ queue' = SubSeq(queue, getting + 1, Len(queue))
    /\ getting' = Idle
    /\ UNCHANGED putting

Empty ==
    /\ putting = Idle
    /\ getting = Idle
    /\ queue' = <<>>
    /\ UNCHANGED <<putting, getting, out>>
=============================================================================
