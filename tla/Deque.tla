-------------------------------- MODULE Deque --------------------------------
(***************************************************************************)
(* What can_msg_list promises its callers: a sequence of distinct nodes    *)
(* that grows and shrinks at both ends, that can lose a node anywhere, and *)
(* that can be asked for a node by its place or by what it carries.        *)
(* LinkedList implements it.                                               *)
(***************************************************************************)
EXTENDS Integers, Sequences

CONSTANTS
    Nodes,
    Nothing      \* NULL

VARIABLES
    seq,         \* the nodes, first to last
    result       \* what the last call returned

dequeVars == <<seq, result>>

DequeInit == seq = <<>> /\ result = Nothing

PushBack(n) == seq' = Append(seq, n) /\ result' = n
PushFront(n) == seq' = <<n>> \o seq /\ result' = n

PopBack ==
    IF seq = <<>> THEN result' = Nothing /\ UNCHANGED seq
    ELSE result' = seq[Len(seq)] /\ seq' = SubSeq(seq, 1, Len(seq) - 1)

PopFront ==
    IF seq = <<>> THEN result' = Nothing /\ UNCHANGED seq
    ELSE result' = Head(seq) /\ seq' = Tail(seq)

\* The nodes behind the one that goes move up.
Without(place) == [i \in 1 .. Len(seq) - 1 |-> IF i < place THEN seq[i] ELSE seq[i + 1]]

Delete(n) ==
    /\ \E place \in 1 .. Len(seq) : seq[place] = n /\ seq' = Without(place)
    /\ UNCHANGED result

\* A place counts from 0 at the front, and from -1 backwards at the back.
Look(i) ==
    LET place == IF i < 0 THEN Len(seq) + i + 1 ELSE i + 1
    IN /\ result' = IF place \in 1 .. Len(seq) THEN seq[place] ELSE Nothing
       /\ UNCHANGED seq

\* The first node that carries v.
Search(v, carries) ==
    /\ \/ \E i \in 1 .. Len(seq) :
             /\ carries[seq[i]] = v
             /\ \A j \in 1 .. i - 1 : carries[seq[j]] # v
             /\ result' = seq[i]
       \/ /\ \A i \in 1 .. Len(seq) : carries[seq[i]] # v
          /\ result' = Nothing
    /\ UNCHANGED seq

\* Memory ran out during a call.
Fail == result' = Nothing /\ UNCHANGED seq

Discard == seq' = <<>> /\ UNCHANGED result
=============================================================================
