--------------------------- MODULE GatewayProofs ---------------------------
(***************************************************************************)
(* The gateway client for every frame length, every capacity of the ring   *)
(* and every number of commands and bytes: what its threads' places, the   *)
(* connection and the commands issued late have to do with each other.     *)
(***************************************************************************)
EXTENDS GatewayClient, SequenceTheorems, TLAPS

\* A thread runs only once main has created it, and main creates threads only on a
\* socket that has been connected; a put or a get under way fits the ring.
Places ==
    /\ main # "idle" => loop = "none"
    /\ main \notin {"spawn loop", "idle"} => client = "none"
    /\ sock = "fresh" => main = "connect"
    /\ loop \in {"issue", "put"} => todo > 0
    /\ putting # Idle => putting <= Capacity - Len(queue)
    /\ getting # Idle => getting <= Len(queue)

\* Commands are late only once the connection is lost, which is for good, and those of
\* the round under way are counted in advance.
LateRound ==
    /\ connected \/ loop = "none" => late = 0
    /\ late + (IF loop \in {"issue", "put"} THEN todo ELSE 0) <= InitRound

\* In the part of a turn that may send, a connection whose error has been reported was
\* reported in this turn.
ErrorSeen ==
    /\ sock = "down" /\ client \in {"get", "take", "send"} => nbytes = "error"
    /\ SigpipeWindow

\* Reading is in step with the frames of the peer from the start.
InStep ==
    "short read" \notin faults =>
        /\ taken % FrameLen = 0
        /\ taken > 0 => recvFrame = Frame((taken \div FrameLen) - 1)

IInv == TypeOK /\ Places /\ LateRound /\ ErrorSeen /\ InStep

-----------------------------------------------------------------------------
LEMMA ConstantFacts ==
    FrameLen \in Nat \ {0} /\ Capacity \in Nat \ {0} /\ MaxFrames \in Nat /\ MaxInbound \in Nat
BY GatewayAssumption, CapacityAssumption

LEMMA FrameIs ==
    ASSUME NEW n \in Nat
    PROVE  /\ Frame(n) \in Seq(Nat)
           /\ Len(Frame(n)) = FrameLen
           /\ \A i \in 1 .. FrameLen : Frame(n)[i] \in Nat
<1>1. Frame(n) \in [1 .. FrameLen -> Nat]
    <2>1. n * FrameLen \in Nat
        BY ConstantFacts
    <2> QED
        BY <2>1, ConstantFacts DEF Frame
<1>2. Frame(n) \in Seq(Nat)
    BY <1>1, SeqDef, ConstantFacts
<1>3. DOMAIN Frame(n) = 1 .. FrameLen /\ DOMAIN Frame(n) = 1 .. Len(Frame(n))
    BY <1>1, <1>2, LenProperties
<1>4. Len(Frame(n)) \in Nat
    BY <1>2, LenProperties
<1>5. Len(Frame(n)) = FrameLen
    BY <1>3, <1>4, ConstantFacts
<1> QED
    BY <1>1, <1>2, <1>5

LEMMA InitIInv == Init => IInv
<1> SUFFICES ASSUME Init PROVE IInv
    OBVIOUS
<1> USE ConstantFacts
<1>1. TypeOK
    <2>1. queue \in Seq(Nat) /\ out \in Seq(Nat) /\ wire \in Seq(Nat) /\ Len(queue) = 0
        BY EmptySeq DEF Init, FifoInit
    <2>2. recvFrame \in [1 .. FrameLen -> Nat \cup {Unread}]
        BY DEF Init
    <2>3. late \in Nat /\ issued \in Nat /\ arrived \in Nat /\ taken \in 0 .. arrived
        BY DEF Init
    <2>4. Len(queue) <= Capacity /\ todo \in 0 .. InitRound
        BY <2>1 DEF Init, InitRound
    <2> QED
        BY <2>1, <2>2, <2>3, <2>4 DEF Init, FifoInit, TypeOK
<1>2. Places
    BY DEF Init, FifoInit, Places
<1>3. LateRound
    BY DEF Init, LateRound, InitRound
<1>4. ErrorSeen
    BY DEF Init, ErrorSeen, SigpipeWindow
<1>5. 0 % FrameLen = 0
    OBVIOUS
<1>6. InStep
    BY <1>5 DEF Init, InStep
<1> QED
    BY <1>1, <1>2, <1>3, <1>4, <1>6 DEF IInv

-----------------------------------------------------------------------------
(* What each part of the state is changed by.                               *)

\* Frames are read by ReadBytes alone, and no fault is forgotten.
LEMMA Reads ==
    ASSUME Next
    PROVE  \/ \E n \in 1 .. FrameLen : ReadBytes(n)
           \/ /\ taken' = taken
              /\ recvFrame' = recvFrame
              /\ "short read" \in faults => "short read" \in faults'
<1>1. CASE Main
    BY <1>1 DEF Main, MainSocket, MainConnect, MainFcntl, SpawnClient, SpawnLoop, netVars,
                clientVars
<1>2. CASE Loop
    BY <1>2 DEF Loop, LoopWake, IssueStart, IssueFinish, netVars, clientVars
<1>3. CASE ReadNothing \/ ReadEof \/ ReadError \/ Reconnect \/ TakeStart \/ TakeFinish \/ Nap
    BY <1>3 DEF ReadNothing, ReadEof, ReadError, Reconnect, TakeStart, TakeFinish, Nap,
                netVars, clientVars
<1>4. CASE (\E n \in 0 .. FrameLen : Send(n)) \/ SendReset \/ SendKills
    BY <1>4 DEF Send, SendReset, SendKills, netVars, clientVars
<1>5. CASE Peer
    BY <1>5 DEF Peer, PeerSends, PeerCloses, PeerResets, clientVars
<1> QED
    BY <1>1, <1>2, <1>3, <1>4, <1>5 DEF Next, Client

LEMMA NextInStep ==
    ASSUME TypeOK, InStep, Next
    PROVE  InStep'
<1> USE ConstantFacts
<1>1. ASSUME NEW n \in 1 .. FrameLen, ReadBytes(n), "short read" \notin faults'
      PROVE  /\ taken' % FrameLen = 0
             /\ recvFrame' = Frame((taken' \div FrameLen) - 1)
    <2> DEFINE k == taken \div FrameLen
    <2>1. n = FrameLen /\ "short read" \notin faults
        <3>1. faults' = faults \cup IF n < FrameLen THEN {"short read"} ELSE {}
            BY <1>1 DEF ReadBytes
        <3>2. ~(n < FrameLen)
            BY <1>1, <3>1, Zenon
        <3>3. "short read" \notin faults
            BY <1>1, <3>1, Zenon
        <3>4. n \in 1 .. FrameLen
            BY <1>1
        <3>5. n = FrameLen
            BY <3>2, <3>4
        <3> QED
            BY <3>3, <3>5
    <2>2. taken \in Nat /\ taken % FrameLen = 0
        <3>1. arrived \in Nat /\ taken \in 0 .. arrived
            BY DEF TypeOK
        <3>2. taken % FrameLen = 0
            BY <2>1 DEF InStep
        <3> QED
            BY <3>1, <3>2
    <2>3. taken = k * FrameLen /\ k \in Nat
        BY <2>2
    <2> HIDE DEF k
    <2>4. taken' = (k + 1) * FrameLen
        <3>1. taken' = taken + n
            BY <1>1 DEF ReadBytes
        <3>2. k * FrameLen + FrameLen = (k + 1) * FrameLen
            BY <2>3
        <3> QED
            BY <2>1, <2>3, <3>1, <3>2
    <2>5. taken' % FrameLen = 0 /\ taken' \div FrameLen = k + 1
        BY <2>3, <2>4
    <2>6. recvFrame' = [i \in 1 .. FrameLen |-> taken + i - 1]
        <3>1. recvFrame' = Received(FrameLen)
            BY <1>1, <2>1 DEF ReadBytes
        <3>2. Received(FrameLen) = [i \in 1 .. FrameLen |-> taken + i - 1]
            BY DEF Received
        <3> QED
            BY <3>1, <3>2
    <2>7. (k + 1) - 1 = k
        BY <2>3
    <2> QED
        BY <2>3, <2>5, <2>6, <2>7 DEF Frame
<1>2. CASE \E n \in 1 .. FrameLen : ReadBytes(n)
    BY <1>1, <1>2 DEF InStep
<1>3. CASE /\ taken' = taken
           /\ recvFrame' = recvFrame
           /\ "short read" \in faults => "short read" \in faults'
    BY <1>3 DEF InStep
<1> QED
    BY <1>2, <1>3, Reads

-----------------------------------------------------------------------------
(* The places of the threads, late commands and SIGPIPE.                    *)

\* What a put and a get do to the ring.
LEMMA PutFacts ==
    ASSUME TypeOK, Places, PutFinish(Frame(issued))
    PROVE  /\ putting \in 0 .. FrameLen
           /\ queue' \in Seq(Nat)
           /\ Len(queue') = Len(queue) + putting
<1> USE ConstantFacts
<1>1. putting \in 0 .. FrameLen /\ queue \in Seq(Nat) /\ issued \in Nat
    BY DEF TypeOK, PutFinish
<1> DEFINE data == SubSeq(Frame(issued), 1, putting)
<1>2. data \in Seq(Nat) /\ Len(data) = putting
    <2>1. \A i \in 1 .. putting : Frame(issued)[i] \in Nat
        BY <1>1, FrameIs
    <2>2. /\ data \in Seq(Nat)
          /\ Len(data) = IF 1 <= putting THEN putting - 1 + 1 ELSE 0
        BY <1>1, <2>1, SubSeqProperties
    <2> QED
        BY <1>1, <2>2
<1>3. queue' = queue \o data
    BY DEF PutFinish
<1> HIDE DEF data
<1> QED
    BY <1>1, <1>2, <1>3, ConcatProperties

LEMMA GetFacts ==
    ASSUME TypeOK, Places, GetFinish
    PROVE  /\ getting \in 0 .. Len(queue)
           /\ queue' \in Seq(Nat) /\ out' \in Seq(Nat)
           /\ Len(queue') = Len(queue) - getting
<1> USE ConstantFacts
<1>1. getting \in 0 .. FrameLen /\ getting <= Len(queue) /\ queue \in Seq(Nat)
    BY DEF TypeOK, Places, GetFinish
<1>2. Len(queue) \in Nat /\ \A i \in 1 .. Len(queue) : queue[i] \in Nat
    BY <1>1, LenProperties, ElementOfSeq
<1> DEFINE n == Len(queue)
<1> HIDE DEF n
<1>3. n \in Nat /\ getting \in 0 .. n /\ \A i \in 1 .. n : queue[i] \in Nat
    BY <1>1, <1>2 DEF n
<1>4. SubSeq(queue, 1, getting) \in Seq(Nat)
    BY <1>3, SubSeqProperties
<1>5. /\ SubSeq(queue, getting + 1, n) \in Seq(Nat)
      /\ Len(SubSeq(queue, getting + 1, n)) = n - getting
    <2>1. /\ SubSeq(queue, getting + 1, n) \in Seq(Nat)
          /\ Len(SubSeq(queue, getting + 1, n))
               = IF getting + 1 <= n THEN n - (getting + 1) + 1 ELSE 0
        BY <1>3, SubSeqProperties
    <2> QED
        BY <1>3, <2>1
<1> QED
    BY <1>3, <1>4, <1>5 DEF n, GetFinish

LEMMA NextPlaces ==
    ASSUME TypeOK, Places, Next
    PROVE  Places'
<1> USE ConstantFacts
<1>1. /\ Len(queue) \in Nat /\ Len(queue) <= Capacity
      /\ putting \in {Idle} \cup (0 .. FrameLen) /\ getting \in {Idle} \cup (0 .. FrameLen)
      /\ todo \in 0 .. InitRound
    BY LenProperties DEF TypeOK
<1>2. CASE Main
    BY <1>2 DEF Main, MainSocket, MainConnect, MainFcntl, SpawnClient, SpawnLoop, MainAt, Exit,
                Places, fifoVars, loopVars, netVars, clientVars
<1>3. CASE LoopWake
    <2>1. todo' > 0
        BY <1>3 DEF LoopWake, Round, InitRound
    <2> QED
        BY <1>3, <2>1 DEF LoopWake, LoopAt, Places, fifoVars, procVars, clientVars, netVars
<1>4. CASE IssueStart
    <2>1. putting' = Lesser(FrameLen, Capacity - Len(queue)) /\ queue' = queue /\ getting' = getting
        BY <1>4 DEF IssueStart, PutStart
    <2>2. putting' <= Capacity - Len(queue')
        BY <1>1, <2>1 DEF Lesser
    <2> QED
        BY <1>4, <2>1, <2>2 DEF IssueStart, LoopAt, Places, procVars, clientVars, netVars
<1>5. CASE IssueFinish
    <2>1. PutFinish(Frame(issued))
        BY <1>5 DEF IssueFinish
    <2>2. Len(queue') = Len(queue) + putting /\ putting \in 0 .. FrameLen
        BY <2>1, PutFacts
    <2>3. putting' = Idle /\ getting' = getting
        BY <2>1 DEF PutFinish
    <2>4. loop' \in {"issue", "put"} => todo' > 0
        <3>1. loop = "put" /\ todo' = todo - 1 /\ loop' = IF todo = 1 THEN "sleep" ELSE "issue"
            BY <1>5 DEF IssueFinish, LoopAt
        <3>2. todo > 0
            BY <3>1 DEF Places
        <3>3. todo \in Nat
            BY <1>1 DEF InitRound
        <3> QED
            BY <3>1, <3>2, <3>3
    <2>5. getting' # Idle => getting' <= Len(queue')
        <3>1. Len(queue) <= Len(queue')
            BY <1>1, <2>2
        <3>2. ASSUME getting # Idle
              PROVE  getting \in Nat /\ getting <= Len(queue)
            <4>1. getting <= Len(queue)
                BY <3>2 DEF Places
            <4>2. getting \in 0 .. FrameLen
                BY <1>1, <3>2
            <4> QED
                BY <4>1, <4>2
        <3>3. Len(queue') \in Nat
            BY <1>1, <2>2
        <3> QED
            BY <1>1, <2>3, <3>1, <3>2, <3>3
    <2> QED
        BY <1>5, <2>3, <2>4, <2>5 DEF IssueFinish, LoopAt, Places, procVars, clientVars, netVars
<1>6. CASE TakeStart
    <2>1. getting' = Lesser(FrameLen, Len(queue)) /\ queue' = queue /\ putting' = putting
        BY <1>6 DEF TakeStart, GetStart
    <2>2. getting' <= Len(queue')
        BY <1>1, <2>1 DEF Lesser
    <2> QED
        BY <1>6, <2>1, <2>2 DEF TakeStart, ClientAt, Places, procVars, loopVars, netVars
<1>7. CASE TakeFinish
    <2>1. GetFinish
        BY <1>7 DEF TakeFinish
    <2>2. Len(queue') = Len(queue) - getting /\ getting \in 0 .. Len(queue)
        BY <2>1, GetFacts
    <2>3. getting' = Idle /\ putting' = putting
        BY <2>1 DEF GetFinish
    <2>4. putting' # Idle => putting' <= Capacity - Len(queue')
        <3>1. Capacity - Len(queue) <= Capacity - Len(queue')
            BY <1>1, <2>2
        <3>2. ASSUME putting # Idle
              PROVE  putting \in Nat /\ putting <= Capacity - Len(queue)
            <4>1. putting <= Capacity - Len(queue)
                BY <3>2 DEF Places
            <4>2. putting \in 0 .. FrameLen
                BY <1>1, <3>2
            <4> QED
                BY <4>1, <4>2
        <3>3. Len(queue') \in Int
            BY <1>1, <2>2
        <3> QED
            BY <1>1, <2>3, <3>1, <3>2, <3>3
    <2> QED
        BY <1>7, <2>3, <2>4 DEF TakeFinish, ClientAt, Places, procVars, loopVars, netVars
<1>8. CASE (\E n \in 1 .. FrameLen : ReadBytes(n)) \/ ReadNothing \/ ReadEof \/ ReadError
    BY <1>8 DEF ReadBytes, ReadNothing, ReadEof, ReadError, Reading, ClientAt, Places,
                fifoVars, procVars, loopVars, netVars
<1>9. CASE Reconnect \/ SendReset \/ SendKills \/ Nap \/ (\E n \in 0 .. FrameLen : Send(n))
    BY <1>9 DEF Reconnect, SendReset, SendKills, Nap, Send, ClientAt, Places,
                fifoVars, procVars, loopVars, netVars, clientVars
<1>10. CASE Peer
    BY <1>10 DEF Peer, PeerSends, PeerCloses, PeerResets, Places, fifoVars, procVars, loopVars,
                 clientVars
<1> QED
    BY <1>2, <1>3, <1>4, <1>5, <1>6, <1>7, <1>8, <1>9, <1>10 DEF Next, Loop, Client

\* A command that turns out late was counted in advance.
LEMMA LateSum ==
    ASSUME NEW l \in Nat, NEW t \in Nat, NEW m, t > 0, l + t <= 4, m \in {l, l + 1}
    PROVE  m + (t - 1) <= 4 /\ m + 0 <= 4
<1>1. CASE m = l
    BY <1>1
<1>2. CASE m = l + 1
    BY <1>2
<1> QED
    BY <1>1, <1>2

LEMMA NextLateRound ==
    ASSUME TypeOK, Places, LateRound, Next
    PROVE  LateRound'
<1>1. late \in Nat /\ todo \in 0 .. InitRound
    BY DEF TypeOK
<1> USE DEF InitRound
<1>2. CASE Main
    BY <1>1, <1>2 DEF Main, MainSocket, MainConnect, MainFcntl, SpawnClient, SpawnLoop, MainAt,
                Exit, Places, LateRound, loopVars
<1>3. CASE LoopWake
    BY <1>1, <1>3 DEF LoopWake, LoopAt, Round, LateRound, clientVars
<1>4. CASE IssueStart
    BY <1>1, <1>4 DEF IssueStart, LoopAt, LateRound, clientVars
<1>5. CASE IssueFinish
    <2>1. /\ loop = "put" /\ todo' = todo - 1 /\ loop' = IF todo = 1 THEN "sleep" ELSE "issue"
          /\ late' = IF connected THEN late ELSE late + 1
          /\ connected' = connected
        BY <1>5 DEF IssueFinish, LoopAt, clientVars
    <2>2. todo > 0 /\ late + todo <= 4
        BY <2>1 DEF Places, LateRound
    <2>3. connected => late = 0
        BY DEF LateRound
    <2>4. late' \in {late, late + 1} /\ late' \in Nat /\ todo' \in Nat
        BY <1>1, <2>1, <2>2
    <2>5. connected' => late' = 0
        BY <2>1, <2>3
    <2>6. loop' # "none"
        BY <2>1
    <2>7. late' + (IF loop' \in {"issue", "put"} THEN todo' ELSE 0) <= 4
        <3>1. todo' = todo - 1 /\ todo \in Nat
            BY <1>1, <2>1
        <3>2. late' + todo' <= 4 /\ late' + 0 <= 4
            BY <1>1, <2>2, <2>4, <3>1, LateSum, Zenon
        <3>3. CASE loop' \in {"issue", "put"}
            BY <3>2, <3>3
        <3>4. CASE loop' \notin {"issue", "put"}
            BY <3>2, <3>4
        <3> QED
            BY <3>3, <3>4
    <2> QED
        BY <2>5, <2>6, <2>7 DEF LateRound
<1>6. CASE Reconnect
    BY <1>1, <1>6 DEF Reconnect, ClientAt, LateRound, Places, loopVars
<1>7. CASE (\E n \in 1 .. FrameLen : ReadBytes(n)) \/ ReadNothing \/ ReadEof \/ ReadError
    BY <1>1, <1>7 DEF ReadBytes, ReadNothing, ReadEof, ReadError, Reading, LateRound, loopVars
<1>8. CASE TakeStart \/ TakeFinish \/ SendReset \/ SendKills \/ Nap
           \/ (\E n \in 0 .. FrameLen : Send(n))
    <2>1. /\ loop' = loop /\ todo' = todo /\ late' = late
          /\ connected' = connected
        BY <1>8 DEF TakeStart, TakeFinish, SendReset, SendKills, Nap, Send, loopVars, clientVars
    <2> QED
        BY <2>1 DEF LateRound
<1>9. CASE Peer
    BY <1>1, <1>9 DEF Peer, PeerSends, PeerCloses, PeerResets, LateRound, loopVars, clientVars
<1> QED
    BY <1>2, <1>3, <1>4, <1>5, <1>6, <1>7, <1>8, <1>9 DEF Next, Loop, Client

LEMMA NextErrorSeen ==
    ASSUME Places, ErrorSeen, Next
    PROVE  ErrorSeen'
<1> USE DEF ErrorSeen, SigpipeWindow
<1>1. CASE Main
    BY <1>1 DEF Main, MainSocket, MainConnect, MainFcntl, SpawnClient, SpawnLoop, MainAt, Exit,
                Places, netVars, clientVars
<1>2. CASE Loop
    BY <1>2 DEF Loop, LoopWake, IssueStart, IssueFinish, procVars, netVars, clientVars
<1>3. CASE (\E n \in 1 .. FrameLen : ReadBytes(n)) \/ ReadNothing \/ ReadEof \/ ReadError
    BY <1>3 DEF ReadBytes, ReadNothing, ReadEof, ReadError, Reading, ClientAt, procVars, netVars
<1>4. CASE Reconnect \/ Nap
    BY <1>4 DEF Reconnect, Nap, ClientAt, procVars, netVars
<1>5. CASE TakeStart \/ TakeFinish
    BY <1>5 DEF TakeStart, TakeFinish, AfterTake, ClientAt, procVars, netVars
<1>6. CASE (\E n \in 0 .. FrameLen : Send(n)) \/ SendReset \/ SendKills
    BY <1>6 DEF Send, SendReset, SendKills, ClientAt, procVars, netVars, clientVars
<1>7. CASE Peer
    BY <1>7 DEF Peer, PeerSends, PeerCloses, PeerResets, procVars, clientVars
<1> QED
    BY <1>1, <1>2, <1>3, <1>4, <1>5, <1>6, <1>7 DEF Next, Client

-----------------------------------------------------------------------------
(* The types, one part of the state at a time.                              *)

RingTyped ==
    /\ queue \in Seq(Nat)
    /\ Len(queue) <= Capacity
    /\ putting \in {Idle} \cup (0 .. FrameLen)
    /\ getting \in {Idle} \cup (0 .. FrameLen)
    /\ out \in Seq(Nat)

ProcTyped ==
    /\ program \in {"running", "exited", "killed"}
    /\ main \in {"socket", "connect", "fcntl", "spawn client", "spawn loop", "idle"}

LoopTyped ==
    /\ loop \in {"none", "sleep", "issue", "put"}
    /\ todo \in 0 .. InitRound
    /\ initFlag \in BOOLEAN
    /\ issued \in Nat
    /\ late \in Nat

ClientTyped ==
    /\ client \in {"none", "read", "get", "take", "send", "nap"}
    /\ connected \in BOOLEAN
    /\ nbytes \in {"none", "again", "data", "eof", "error"}
    /\ recvFrame \in [1 .. FrameLen -> Nat \cup {Unread}]

NetTyped ==
    /\ sock \in {"none", "fresh", "up", "fin", "reset", "broken", "down"}
    /\ arrived \in Nat
    /\ taken \in 0 .. arrived
    /\ wire \in Seq(Nat)

FaultsTyped == faults \subseteq {"short put", "short read", "short send", "lost frame"}

LEMMA Parts ==
    TypeOK <=> RingTyped /\ ProcTyped /\ LoopTyped /\ ClientTyped /\ NetTyped /\ FaultsTyped
BY Zenon DEF TypeOK, RingTyped, ProcTyped, LoopTyped, ClientTyped, NetTyped, FaultsTyped

LEMMA PartsNext ==
    ASSUME RingTyped', ProcTyped', LoopTyped', ClientTyped', NetTyped', FaultsTyped'
    PROVE  TypeOK'
BY Zenon DEF TypeOK, RingTyped, ProcTyped, LoopTyped, ClientTyped, NetTyped, FaultsTyped

LEMMA Unchanged ==
    ASSUME TypeOK
    PROVE  /\ UNCHANGED fifoVars => RingTyped'
           /\ UNCHANGED procVars => ProcTyped'
           /\ UNCHANGED loopVars => LoopTyped'
           /\ UNCHANGED clientVars => ClientTyped'
           /\ UNCHANGED netVars => NetTyped'
           /\ UNCHANGED faults => FaultsTyped'
<1>1. RingTyped /\ ProcTyped /\ LoopTyped /\ ClientTyped /\ NetTyped /\ FaultsTyped
    BY Parts
<1>2. UNCHANGED fifoVars => RingTyped'
    BY <1>1 DEF RingTyped, fifoVars
<1>3. UNCHANGED procVars => ProcTyped'
    BY <1>1 DEF ProcTyped, procVars
<1>4. UNCHANGED loopVars => LoopTyped'
    BY <1>1 DEF LoopTyped, loopVars
<1>5. UNCHANGED clientVars => ClientTyped'
    BY <1>1 DEF ClientTyped, clientVars
<1>6. UNCHANGED netVars => NetTyped'
    BY <1>1 DEF NetTyped, netVars
<1>7. UNCHANGED faults => FaultsTyped'
    BY <1>1 DEF FaultsTyped
<1> QED
    BY <1>2, <1>3, <1>4, <1>5, <1>6, <1>7

LEMMA MainTyped ==
    ASSUME TypeOK, Main
    PROVE  TypeOK'
<1>1. RingTyped /\ ProcTyped /\ LoopTyped /\ ClientTyped /\ NetTyped /\ FaultsTyped
    BY Parts
<1> USE DEF Main, MainSocket, MainConnect, MainFcntl, SpawnClient, SpawnLoop, MainAt, Exit
<1>2. UNCHANGED <<fifoVars, faults>>
    OBVIOUS
<1>3. ProcTyped'
    BY <1>1 DEF ProcTyped, procVars
<1>4. LoopTyped'
    BY <1>1 DEF LoopTyped, loopVars
<1>5. ClientTyped'
    BY <1>1 DEF ClientTyped, clientVars
<1>6. NetTyped'
    BY <1>1 DEF NetTyped, netVars
<1> QED
    BY <1>2, <1>3, <1>4, <1>5, <1>6, Unchanged, PartsNext

LEMMA LoopStepTyped ==
    ASSUME TypeOK, Places, Loop
    PROVE  TypeOK'
<1> USE ConstantFacts
<1>1. RingTyped /\ LoopTyped /\ FaultsTyped
    BY Parts
<1>2. UNCHANGED <<procVars, clientVars, netVars>>
    BY DEF Loop, LoopWake, IssueStart, IssueFinish
<1>3. Len(queue) \in Nat /\ Len(queue) <= Capacity
    BY <1>1, LenProperties DEF RingTyped
<1>4. CASE LoopWake
    <2>1. LoopTyped'
        BY <1>1, <1>4 DEF LoopWake, LoopTyped, Round, InitRound
    <2>2. UNCHANGED <<fifoVars, faults>>
        BY <1>4 DEF LoopWake
    <2> QED
        BY <1>2, <2>1, <2>2, Unchanged, PartsNext
<1>5. CASE IssueStart
    <2>1. putting' = Lesser(FrameLen, Capacity - Len(queue)) /\ UNCHANGED <<queue, getting, out>>
        BY <1>5 DEF IssueStart, PutStart
    <2>2. putting' \in 0 .. FrameLen
        BY <1>3, <2>1 DEF Lesser
    <2>3. RingTyped'
        BY <1>1, <2>1, <2>2 DEF RingTyped
    <2>4. LoopTyped' /\ UNCHANGED faults
        BY <1>1, <1>5 DEF IssueStart, LoopTyped
    <2> QED
        BY <1>2, <2>3, <2>4, Unchanged, PartsNext
<1>6. CASE IssueFinish
    <2>1. PutFinish(Frame(issued))
        BY <1>6 DEF IssueFinish
    <2>2. queue' \in Seq(Nat) /\ Len(queue') = Len(queue) + putting /\ putting \in 0 .. FrameLen
        BY <2>1, PutFacts
    <2>3. putting <= Capacity - Len(queue)
        BY <2>1 DEF Places, PutFinish
    <2>4. Len(queue') <= Capacity
        BY <1>3, <2>2, <2>3
    <2>5. putting' = Idle /\ getting' = getting /\ out' = out
        BY <2>1 DEF PutFinish
    <2>6. RingTyped'
        BY <1>1, <2>2, <2>4, <2>5 DEF RingTyped
    <2>7. todo' = todo - 1 /\ todo > 0 /\ todo \in 0 .. InitRound
        BY <1>1, <1>6 DEF IssueFinish, LoopAt, Places, LoopTyped
    <2>8. todo' \in 0 .. InitRound
        BY <2>7 DEF InitRound
    <2>9. issued' \in Nat /\ late' \in Nat /\ loop' \in {"sleep", "issue"} /\ initFlag' \in BOOLEAN
        <3>1. issued \in Nat /\ late \in Nat /\ initFlag \in BOOLEAN
            BY <1>1 DEF LoopTyped
        <3>2. issued' = issued + 1 /\ late' \in {late, late + 1} /\ loop' \in {"sleep", "issue"}
            BY <1>6 DEF IssueFinish
        <3>3. initFlag' = (initFlag \/ todo = 1)
            BY <1>6 DEF IssueFinish
        <3>4. initFlag' \in BOOLEAN
            BY <3>3, Zenon
        <3> QED
            BY <3>1, <3>2, <3>4
    <2>10. LoopTyped'
        BY <2>8, <2>9 DEF LoopTyped
    <2>11. FaultsTyped'
        <3>1. faults' = faults \cup IF putting < FrameLen THEN {"short put"} ELSE {}
            BY <1>6 DEF IssueFinish
        <3>2. faults' \subseteq faults \cup {"short put"}
            BY <3>1, Zenon
        <3> QED
            BY <1>1, <3>2 DEF FaultsTyped
    <2> QED
        BY <1>2, <2>6, <2>10, <2>11, Unchanged, PartsNext
<1> QED
    BY <1>4, <1>5, <1>6 DEF Loop

LEMMA ReadTyped ==
    ASSUME TypeOK, NEW n \in 1 .. FrameLen, ReadBytes(n)
    PROVE  TypeOK'
<1> USE ConstantFacts
<1>1. ClientTyped /\ NetTyped /\ FaultsTyped
    BY Parts
<1>2. arrived \in Nat /\ taken \in 0 .. arrived /\ n \in Nat /\ n <= arrived - taken
    <2>1. arrived \in Nat /\ taken \in 0 .. arrived
        BY <1>1 DEF NetTyped
    <2>2. n <= arrived - taken
        BY DEF ReadBytes
    <2> QED
        BY <2>1, <2>2
<1>3. NetTyped'
    <2>1. taken' = taken + n /\ UNCHANGED <<sock, arrived, wire>>
        BY DEF ReadBytes
    <2>2. taken' \in 0 .. arrived'
        BY <1>2, <2>1
    <2> QED
        BY <1>1, <2>1, <2>2 DEF NetTyped
<1>4. ClientTyped'
    <2>1. recvFrame' = [i \in 1 .. FrameLen |-> IF i <= n THEN taken + i - 1 ELSE recvFrame[i]]
        BY DEF ReadBytes, Received
    <2>2. \A i \in 1 .. FrameLen : taken + i - 1 \in Nat
        BY <1>2
    <2>3. \A i \in 1 .. FrameLen : recvFrame[i] \in Nat \cup {Unread}
        BY <1>1 DEF ClientTyped
    <2>4. recvFrame' \in [1 .. FrameLen -> Nat \cup {Unread}]
        BY <2>1, <2>2, <2>3
    <2> QED
        BY <1>1, <2>4 DEF ReadBytes, ClientTyped
<1>5. FaultsTyped'
    <2>1. faults' = faults \cup IF n < FrameLen THEN {"short read"} ELSE {}
        BY DEF ReadBytes
    <2>2. faults' \subseteq faults \cup {"short read"}
        BY <2>1, Zenon
    <2> QED
        BY <1>1, <2>2 DEF FaultsTyped
<1>6. UNCHANGED <<fifoVars, procVars, loopVars>>
    BY DEF ReadBytes
<1> QED
    BY <1>3, <1>4, <1>5, <1>6, Unchanged, PartsNext

LEMMA TakeTyped ==
    ASSUME TypeOK, Places, TakeStart \/ TakeFinish
    PROVE  TypeOK'
<1> USE ConstantFacts
<1>1. RingTyped /\ ClientTyped
    BY Parts
<1>2. Len(queue) \in Nat /\ Len(queue) <= Capacity
    BY <1>1, LenProperties DEF RingTyped
<1>3. UNCHANGED <<procVars, loopVars, netVars, faults>>
    BY DEF TakeStart, TakeFinish
<1>4. ClientTyped'
    BY <1>1 DEF TakeStart, TakeFinish, AfterTake, ClientTyped
<1>5. ASSUME TakeStart
      PROVE  RingTyped'
    <2>1. /\ getting' = Lesser(FrameLen, Len(queue)) /\ out' = <<>>
          /\ UNCHANGED <<queue, putting>>
        BY <1>5 DEF TakeStart, GetStart
    <2>2. getting' \in 0 .. FrameLen
        BY <1>2, <2>1 DEF Lesser
    <2>3. out' \in Seq(Nat)
        BY <2>1, EmptySeq
    <2> QED
        BY <1>1, <2>1, <2>2, <2>3 DEF RingTyped
<1>6. ASSUME TakeFinish
      PROVE  RingTyped'
    <2>1. GetFinish
        BY <1>6 DEF TakeFinish
    <2>2. /\ getting \in 0 .. Len(queue) /\ queue' \in Seq(Nat) /\ out' \in Seq(Nat)
          /\ Len(queue') = Len(queue) - getting
        BY <2>1, GetFacts
    <2>3. Len(queue') <= Capacity
        BY <1>2, <2>2
    <2>4. getting' = Idle /\ putting' = putting
        BY <2>1 DEF GetFinish
    <2> QED
        BY <1>1, <2>2, <2>3, <2>4 DEF RingTyped
<1> QED
    BY <1>3, <1>4, <1>5, <1>6, Unchanged, PartsNext

LEMMA SendTyped ==
    ASSUME TypeOK, NEW n \in 0 .. FrameLen, Send(n)
    PROVE  TypeOK'
<1> USE ConstantFacts
<1>1. RingTyped /\ ClientTyped /\ NetTyped /\ FaultsTyped
    BY Parts
<1>2. out \in Seq(Nat) /\ n <= Len(out) /\ Len(out) \in Nat
    BY <1>1, LenProperties DEF Send, RingTyped
<1>3. \A i \in 1 .. n : out[i] \in Nat
    BY <1>2, ElementOfSeq
<1>4. SubSeq(out, 1, n) \in Seq(Nat)
    BY <1>3, SubSeqProperties
<1>5. wire' \in Seq(Nat)
    <2>1. wire' = wire \o SubSeq(out, 1, n) /\ wire \in Seq(Nat)
        BY <1>1 DEF Send, NetTyped
    <2> QED
        BY <1>4, <2>1, ConcatProperties
<1>6. NetTyped'
    BY <1>1, <1>5 DEF Send, NetTyped
<1>7. ClientTyped'
    BY <1>1 DEF Send, ClientTyped
<1>8. FaultsTyped'
    BY <1>1 DEF Send, FaultsTyped
<1>9. UNCHANGED <<fifoVars, procVars, loopVars>>
    BY DEF Send
<1> QED
    BY <1>6, <1>7, <1>8, <1>9, Unchanged, PartsNext

LEMMA OtherTyped ==
    ASSUME TypeOK,
           ReadNothing \/ ReadEof \/ ReadError \/ Reconnect \/ SendReset \/ SendKills \/ Nap
    PROVE  TypeOK'
<1>1. ProcTyped /\ ClientTyped /\ NetTyped /\ FaultsTyped
    BY Parts
<1> USE DEF ReadNothing, ReadEof, ReadError, Reconnect, SendReset, SendKills, Nap
<1>2. UNCHANGED <<fifoVars, loopVars>>
    OBVIOUS
<1>3. ProcTyped'
    BY <1>1 DEF ProcTyped, procVars
<1>4. ClientTyped'
    BY <1>1 DEF ClientTyped, clientVars
<1>5. NetTyped'
    BY <1>1 DEF NetTyped, netVars
<1>6. FaultsTyped'
    BY <1>1 DEF FaultsTyped
<1> QED
    BY <1>2, <1>3, <1>4, <1>5, <1>6, Unchanged, PartsNext

LEMMA PeerTyped ==
    ASSUME TypeOK, Peer
    PROVE  TypeOK'
<1> USE ConstantFacts
<1>1. NetTyped
    BY Parts
<1>2. UNCHANGED <<fifoVars, procVars, loopVars, clientVars, faults>>
    BY DEF Peer, PeerSends, PeerCloses, PeerResets
<1>3. ASSUME \E n \in 1 .. FrameLen : PeerSends(n)
      PROVE  NetTyped'
    <2>1. PICK n \in 1 .. FrameLen : PeerSends(n)
        BY <1>3
    <2>2. arrived' = arrived + n /\ UNCHANGED <<sock, taken, wire>>
        BY <2>1 DEF PeerSends
    <2>3. arrived' \in Nat /\ taken' \in 0 .. arrived'
        BY <1>1, <2>2 DEF NetTyped
    <2> QED
        BY <1>1, <2>2, <2>3 DEF NetTyped
<1>4. ASSUME PeerCloses \/ PeerResets
      PROVE  NetTyped'
    BY <1>1, <1>4 DEF PeerCloses, PeerResets, NetTyped
<1> QED
    BY <1>2, <1>3, <1>4, Unchanged, PartsNext DEF Peer

LEMMA NextTyped ==
    ASSUME TypeOK, Places, Next
    PROVE  TypeOK'
BY MainTyped, LoopStepTyped, ReadTyped, TakeTyped, SendTyped, OtherTyped, PeerTyped
DEF Next, Client

-----------------------------------------------------------------------------
LEMMA Stutter ==
    ASSUME IInv, UNCHANGED vars
    PROVE  IInv'
<1>1. TypeOK'
    BY Unchanged, PartsNext DEF IInv, vars
<1> USE DEF vars, fifoVars, procVars, loopVars, clientVars, netVars
<1>2. Places' /\ LateRound'
    BY DEF IInv, Places, LateRound
<1>3. ErrorSeen'
    BY DEF IInv, ErrorSeen, SigpipeWindow
<1>4. InStep'
    BY DEF IInv, InStep
<1> QED
    BY <1>1, <1>2, <1>3, <1>4 DEF IInv

LEMMA NextIInv == IInv /\ [Next]_vars => IInv'
<1> SUFFICES ASSUME IInv, [Next]_vars PROVE IInv'
    OBVIOUS
<1>1. CASE Next
    BY <1>1, NextTyped, NextPlaces, NextLateRound, NextErrorSeen, NextInStep DEF IInv
<1>2. CASE UNCHANGED vars
    BY <1>2, Stutter
<1> QED
    BY <1>1, <1>2

\* The inductive invariant: types, places, late commands, the reported error and the
\* step of the reads hold in every state of main.c's three threads and their peer.
THEOREM Inductive == Spec => []IInv
BY InitIInv, NextIInv, PTL DEF Spec

\* The types of the state of main, of the two threads and of the connection; the ring
\* never holds more than its capacity.
THEOREM TypeCorrect == Spec => []TypeOK
<1>1. IInv => TypeOK
    BY DEF IInv
<1> QED
    BY <1>1, Inductive, PTL

\* However the threads interleave around is_connected, at most one round of commands is
\* put into the ring of a connection known to be lost.
THEOREM LateBound == Spec => []LateCommands
<1>1. IInv => LateCommands
    <2> SUFFICES ASSUME IInv PROVE late <= InitRound
        BY DEF LateCommands
    <2>1. late \in Nat /\ todo \in 0 .. InitRound
        BY DEF IInv, TypeOK
    <2>2. late + (IF loop \in {"issue", "put"} THEN todo ELSE 0) <= InitRound
        BY DEF IInv, LateRound
    <2>3. CASE loop \in {"issue", "put"}
        BY <2>1, <2>2, <2>3 DEF InitRound
    <2>4. CASE loop \notin {"issue", "put"}
        BY <2>1, <2>2, <2>4 DEF InitRound
    <2> QED
        BY <2>3, <2>4
<1> QED
    BY <1>1, Inductive, PTL

\* SIGPIPE ends the program only in the turn whose read reported the reset, or when a
\* reset crossed the close of the peer.
THEOREM SigpipeOnly == Spec => []SigpipeWindow
<1>1. IInv => SigpipeWindow
    BY DEF IInv, ErrorSeen
<1> QED
    BY <1>1, Inductive, PTL

\* Whatever the peer sends and whenever it is read, what is handed to
\* can_device_msg_parse is the last frame read, until a read returns less than a frame.
THEOREM Parsed == Spec => []ParsedWhole
<1>1. IInv => ParsedWhole
    BY DEF IInv, InStep, ParsedWhole
<1> QED
    BY <1>1, Inductive, PTL

-----------------------------------------------------------------------------
(* The bytes that are sent, whatever is cut short, lost, reset or refused  *)
(* on the way from pthread_loop through the ring to the peer: none twice   *)
(* or before an older one, none lost silently, and whole frames for every  *)
(* frame length and every capacity of the ring.                            *)

-----------------------------------------------------------------------------
(* Order.                                                                   *)

Ascends(s) == \A i, j \in 1 .. Len(s) : i < j => s[i] < s[j]
Before(s, t) == \A i \in 1 .. Len(s), j \in 1 .. Len(t) : s[i] < t[j]
UpTo(s, n) == \A i \in 1 .. Len(s) : s[i] < n

\* The bytes on the wire are older than those in hand, those in hand older than those
\* in the ring, and these have all been issued.
Ordered ==
    /\ Ascends(wire) /\ Ascends(InHand) /\ Ascends(queue)
    /\ Before(wire, InHand) /\ Before(wire, queue) /\ Before(InHand, queue)
    /\ UpTo(wire, issued * FrameLen)
    /\ UpTo(InHand, issued * FrameLen)
    /\ UpTo(queue, issued * FrameLen)

-----------------------------------------------------------------------------
(* Order and the operators on sequences.                                    *)

LEMMA Elements ==
    ASSUME NEW s \in Seq(Nat)
    PROVE  Len(s) \in Nat /\ \A i \in 1 .. Len(s) : s[i] \in Nat
BY LenProperties, ElementOfSeq

LEMMA Concat ==
    ASSUME NEW s \in Seq(Nat), NEW t \in Seq(Nat)
    PROVE  /\ s \o t \in Seq(Nat)
           /\ Len(s \o t) = Len(s) + Len(t)
           /\ \A i \in 1 .. Len(s \o t) :
                  \/ i \in 1 .. Len(s) /\ (s \o t)[i] = s[i]
                  \/ i - Len(s) \in 1 .. Len(t) /\ (s \o t)[i] = t[i - Len(s)]
<1>1. /\ s \o t \in Seq(Nat)
      /\ Len(s \o t) = Len(s) + Len(t)
      /\ \A i \in 1 .. Len(s) + Len(t) :
             (s \o t)[i] = IF i <= Len(s) THEN s[i] ELSE t[i - Len(s)]
    BY ConcatProperties
<1>2. Len(s) \in Nat /\ Len(t) \in Nat
    BY Elements
<1> QED
    BY <1>1, <1>2

LEMMA ConcatOrder ==
    ASSUME NEW s \in Seq(Nat), NEW t \in Seq(Nat)
    PROVE  /\ Ascends(s) /\ Ascends(t) /\ Before(s, t) => Ascends(s \o t)
           /\ \A u \in Seq(Nat) :
                  /\ Before(s, u) /\ Before(t, u) => Before(s \o t, u)
                  /\ Before(u, s) /\ Before(u, t) => Before(u, s \o t)
           /\ \A n \in Nat : UpTo(s, n) /\ UpTo(t, n) => UpTo(s \o t, n)
<1> DEFINE c == s \o t
           a == Len(s)
           b == Len(t)
<1>1. /\ a \in Nat /\ b \in Nat /\ Len(c) = a + b
      /\ \A i \in 1 .. Len(c) : \/ i \in 1 .. a /\ c[i] = s[i]
                                \/ i - a \in 1 .. b /\ c[i] = t[i - a]
    BY Concat, Elements
<1> HIDE DEF c
<1>2. ASSUME Ascends(s), Ascends(t), Before(s, t)
      PROVE  Ascends(c)
    <2> SUFFICES ASSUME NEW i \in 1 .. Len(c), NEW j \in 1 .. Len(c), i < j
                 PROVE  c[i] < c[j]
        BY DEF Ascends
    <2>1. CASE i \in 1 .. a /\ c[i] = s[i] /\ j \in 1 .. a /\ c[j] = s[j]
        BY <1>2, <2>1 DEF Ascends
    <2>2. CASE i \in 1 .. a /\ c[i] = s[i] /\ j - a \in 1 .. b /\ c[j] = t[j - a]
        BY <1>2, <2>2 DEF Before
    <2>3. CASE i - a \in 1 .. b /\ c[i] = t[i - a] /\ j - a \in 1 .. b /\ c[j] = t[j - a]
        <3>1. i - a < j - a
            BY <1>1
        <3> QED
            BY <1>2, <2>3, <3>1 DEF Ascends
    <2>4. CASE i - a \in 1 .. b /\ j \in 1 .. a
        BY <1>1, <2>4
    <2> QED
        BY <1>1, <2>1, <2>2, <2>3, <2>4
<1>3. ASSUME NEW u \in Seq(Nat), Before(s, u), Before(t, u)
      PROVE  Before(c, u)
    BY <1>1, <1>3 DEF Before
<1>4. ASSUME NEW u \in Seq(Nat), Before(u, s), Before(u, t)
      PROVE  Before(u, c)
    BY <1>1, <1>4 DEF Before
<1>5. ASSUME NEW n \in Nat, UpTo(s, n), UpTo(t, n)
      PROVE  UpTo(c, n)
    BY <1>1, <1>5 DEF UpTo
<1> QED
    BY <1>2, <1>3, <1>4, <1>5 DEF c

LEMMA Part ==
    ASSUME NEW s \in Seq(Nat), NEW m \in Nat \ {0}, NEW n \in 0 .. Len(s)
    PROVE  /\ SubSeq(s, m, n) \in Seq(Nat)
           /\ \A i \in 1 .. Len(SubSeq(s, m, n)) :
                  m + i - 1 \in m .. n /\ SubSeq(s, m, n)[i] = s[m + i - 1]
<1>1. Len(s) \in Nat /\ \A i \in 1 .. Len(s) : s[i] \in Nat
    BY Elements
<1> DEFINE l == Len(s)
<1> HIDE DEF l
<1>2. l \in Nat /\ n \in 0 .. l /\ \A i \in 1 .. l : s[i] \in Nat
    BY <1>1 DEF l
<1>3. \A i \in m .. n : s[i] \in Nat
    BY <1>2
<1>4. /\ SubSeq(s, m, n) \in Seq(Nat)
      /\ Len(SubSeq(s, m, n)) = IF m <= n THEN n - m + 1 ELSE 0
      /\ \A i \in 1 .. n - m + 1 : SubSeq(s, m, n)[i] = s[m + i - 1]
    BY <1>2, <1>3, SubSeqProperties
<1> QED
    BY <1>2, <1>4

LEMMA PartOrder ==
    ASSUME NEW s \in Seq(Nat), NEW m \in Nat \ {0}, NEW n \in 0 .. Len(s)
    PROVE  /\ Ascends(s) => Ascends(SubSeq(s, m, n))
           /\ \A u \in Seq(Nat) :
                  /\ Before(s, u) => Before(SubSeq(s, m, n), u)
                  /\ Before(u, s) => Before(u, SubSeq(s, m, n))
           /\ \A k \in Nat : UpTo(s, k) => UpTo(SubSeq(s, m, n), k)
<1> DEFINE p == SubSeq(s, m, n)
<1>1. /\ p \in Seq(Nat) /\ Len(p) \in Nat
      /\ \A i \in 1 .. Len(p) : m + i - 1 \in m .. n /\ p[i] = s[m + i - 1]
    BY Part, Elements
<1> HIDE DEF p
<1>2. \A i \in 1 .. Len(p) : m + i - 1 \in 1 .. Len(s) /\ p[i] = s[m + i - 1]
    <2>1. Len(s) \in Nat
        BY Elements
    <2>2. m .. n \subseteq 1 .. Len(s)
        BY <2>1
    <2> QED
        BY <1>1, <2>2
<1>3. ASSUME Ascends(s), NEW i \in 1 .. Len(p), NEW j \in 1 .. Len(p), i < j
      PROVE  p[i] < p[j]
    <2>1. m + i - 1 < m + j - 1
        BY <1>1, <1>3
    <2> QED
        BY <1>2, <1>3, <2>1 DEF Ascends
<1>4. \A u \in Seq(Nat) : (Before(s, u) => Before(p, u)) /\ (Before(u, s) => Before(u, p))
    BY <1>2 DEF Before
<1>5. \A k \in Nat : UpTo(s, k) => UpTo(p, k)
    BY <1>2 DEF UpTo
<1> QED
    BY <1>3, <1>4, <1>5 DEF p, Ascends

\* A sequence that ascends, cut in two.
LEMMA CutOrder ==
    ASSUME NEW s \in Seq(Nat), NEW g \in 0 .. Len(s), Ascends(s)
    PROVE  Before(SubSeq(s, 1, g), SubSeq(s, g + 1, Len(s)))
<1> DEFINE p == SubSeq(s, 1, g)
           q == SubSeq(s, g + 1, Len(s))
<1>1. Len(s) \in Nat /\ g \in Nat
    BY Elements
<1>2. \A i \in 1 .. Len(p) : 1 + i - 1 \in 1 .. g /\ p[i] = s[1 + i - 1]
    BY Part, <1>1
<1>3. \A i \in 1 .. Len(q) : g + 1 + i - 1 \in g + 1 .. Len(s) /\ q[i] = s[g + 1 + i - 1]
    BY Part, <1>1
<1>4. Len(p) \in Nat /\ Len(q) \in Nat
    BY Part, Elements, <1>1
<1> HIDE DEF p, q
<1>5. ASSUME NEW i \in 1 .. Len(p), NEW j \in 1 .. Len(q)
      PROVE  p[i] < q[j]
    <2>1. i \in 1 .. g /\ p[i] = s[i]
        BY <1>2, <1>4
    <2>2. g + j \in g + 1 .. Len(s) /\ q[j] = s[g + j]
        BY <1>1, <1>3, <1>4
    <2>3. i \in 1 .. Len(s) /\ g + j \in 1 .. Len(s) /\ i < g + j
        BY <1>1, <2>1, <2>2
    <2> QED
        BY <2>1, <2>2, <2>3 DEF Ascends
<1> QED
    BY <1>5 DEF Before, p, q

LEMMA EmptyOrder ==
    /\ <<>> \in Seq(Nat) /\ Ascends(<<>>)
    /\ \A u \in Seq(Nat) : Before(<<>>, u) /\ Before(u, <<>>)
    /\ \A n \in Nat : UpTo(<<>>, n)
<1>1. Len(<<>>) = 0 /\ <<>> \in Seq(Nat)
    BY EmptySeq
<1> QED
    BY <1>1 DEF Ascends, Before, UpTo

\* The bytes of a frame ascend; they come after all that was issued before it.
LEMMA FrameOrder ==
    ASSUME NEW k \in Nat
    PROVE  /\ Ascends(Frame(k))
           /\ UpTo(Frame(k), (k + 1) * FrameLen)
           /\ k * FrameLen \in Nat /\ (k + 1) * FrameLen \in Nat
           /\ k * FrameLen <= (k + 1) * FrameLen
           /\ \A s \in Seq(Nat) : UpTo(s, k * FrameLen) => Before(s, Frame(k))
<1> DEFINE a == k * FrameLen
<1>1. a \in Nat /\ (k + 1) * FrameLen = a + FrameLen /\ FrameLen \in Nat
    BY ConstantFacts
<1>2. Len(Frame(k)) = FrameLen
    BY FrameIs
<1>3. \A i \in 1 .. FrameLen : Frame(k)[i] = a + i - 1
    BY DEF Frame
<1> HIDE DEF a
<1>4. Ascends(Frame(k))
    BY <1>1, <1>2, <1>3 DEF Ascends
<1>5. UpTo(Frame(k), a + FrameLen)
    BY <1>1, <1>2, <1>3 DEF UpTo
<1>6. ASSUME NEW s \in Seq(Nat), UpTo(s, a)
      PROVE  Before(s, Frame(k))
    <2>1. \A i \in 1 .. Len(s) : s[i] \in Nat /\ s[i] < a
        BY <1>6, Elements DEF UpTo
    <2> QED
        BY <1>1, <1>2, <1>3, <2>1 DEF Before
<1> QED
    BY <1>1, <1>4, <1>5, <1>6 DEF a

\* More may be issued than the bytes are bounded by.
LEMMA UpToMore ==
    ASSUME NEW s \in Seq(Nat), NEW a \in Nat, NEW b \in Nat, a <= b, UpTo(s, a)
    PROVE  UpTo(s, b)
<1>1. \A i \in 1 .. Len(s) : s[i] \in Nat /\ s[i] < a
    BY Elements DEF UpTo
<1> QED
    BY <1>1 DEF UpTo

-----------------------------------------------------------------------------
(* The three actions that move bytes, and all the others.                   *)

LEMMA IssuedBytes == TypeOK => issued * FrameLen \in Nat
<1> SUFFICES ASSUME TypeOK PROVE issued * FrameLen \in Nat
    OBVIOUS
<1>1. issued \in Nat
    BY DEF TypeOK
<1> QED
    BY <1>1, FrameOrder

LEMMA InHandTyped == TypeOK => InHand \in Seq(Nat)
BY EmptySeq DEF TypeOK, InHand

LEMMA InitOrdered == Init => Ordered
<1> SUFFICES ASSUME Init PROVE Ordered
    OBVIOUS
<1>1. wire = <<>> /\ queue = <<>> /\ InHand = <<>>
    BY DEF Init, FifoInit, InHand
<1>2. issued * FrameLen \in Nat
    BY ConstantFacts DEF Init
<1> QED
    BY <1>1, <1>2, EmptyOrder DEF Ordered

\* What neither puts, takes nor sends moves no byte.
Still == UNCHANGED <<queue, wire, issued>> /\ InHand' = InHand

LEMMA Moves ==
    ASSUME Places, Next
    PROVE  \/ Still \/ IssueFinish \/ TakeFinish \/ SendReset
           \/ \E n \in 0 .. FrameLen : Send(n)
<1> USE DEF Still, InHand
<1>1. CASE Main
    BY <1>1 DEF Main, MainSocket, MainConnect, MainFcntl, SpawnClient, SpawnLoop, MainAt, Exit,
                Places, fifoVars, loopVars, netVars, clientVars
<1>2. CASE LoopWake \/ IssueStart
    BY <1>2 DEF LoopWake, IssueStart, PutStart, fifoVars, clientVars, netVars
<1>3. CASE (\E n \in 1 .. FrameLen : ReadBytes(n)) \/ ReadNothing \/ ReadEof \/ ReadError
    BY <1>3 DEF ReadBytes, ReadNothing, ReadEof, ReadError, Reading, ClientAt, fifoVars, loopVars,
                netVars
<1>4. CASE Reconnect \/ Nap \/ TakeStart
    BY <1>4 DEF Reconnect, Nap, TakeStart, GetStart, ClientAt, fifoVars, loopVars, netVars
<1>5. CASE SendKills
    BY <1>5 DEF SendKills, fifoVars, loopVars, clientVars, netVars
<1>6. CASE Peer
    BY <1>6 DEF Peer, PeerSends, PeerCloses, PeerResets, fifoVars, loopVars, clientVars
<1> QED
    BY <1>1, <1>2, <1>3, <1>4, <1>5, <1>6 DEF Next, Loop, Client

\* A stutter moves none either.
LEMMA StutterStill == UNCHANGED vars => Still
BY DEF vars, fifoVars, clientVars, netVars, loopVars, Still, InHand

LEMMA ResetOrdered ==
    ASSUME TypeOK, Ordered, SendReset
    PROVE  Ordered'
<1>1. queue \in Seq(Nat) /\ wire \in Seq(Nat) /\ issued * FrameLen \in Nat
    BY IssuedBytes DEF TypeOK
<1>2. queue' = queue /\ wire' = wire /\ issued' = issued /\ InHand' = <<>>
    BY DEF SendReset, fifoVars, loopVars, InHand
<1> QED
    BY <1>1, <1>2, EmptyOrder DEF Ordered

LEMMA IssueOrdered ==
    ASSUME TypeOK, Places, Ordered, IssueFinish
    PROVE  Ordered'
<1> DEFINE a == issued * FrameLen
           b == (issued + 1) * FrameLen
           data == SubSeq(Frame(issued), 1, putting)
<1>1. PutFinish(Frame(issued)) /\ issued' = issued + 1 /\ UNCHANGED <<wire, client, out>>
    BY DEF IssueFinish, PutFinish, clientVars, netVars
<1>2. queue' = queue \o data /\ wire' = wire /\ InHand' = InHand
    BY <1>1 DEF PutFinish, InHand
<1>3. queue \in Seq(Nat) /\ wire \in Seq(Nat) /\ InHand \in Seq(Nat) /\ issued \in Nat
    BY InHandTyped DEF TypeOK
<1>4. /\ a \in Nat /\ b \in Nat /\ a <= b
      /\ Ascends(Frame(issued)) /\ UpTo(Frame(issued), b)
      /\ Before(wire, Frame(issued)) /\ Before(InHand, Frame(issued))
      /\ Before(queue, Frame(issued))
    BY <1>3, FrameOrder DEF Ordered
<1>5. Frame(issued) \in Seq(Nat) /\ putting \in 0 .. Len(Frame(issued))
    BY <1>1, <1>3, FrameIs, PutFacts
<1>6. /\ data \in Seq(Nat) /\ Ascends(data) /\ UpTo(data, b)
      /\ Before(wire, data) /\ Before(InHand, data) /\ Before(queue, data)
    BY <1>3, <1>4, <1>5, Part, PartOrder, SMTT(30)
<1>7. UpTo(wire, b) /\ UpTo(InHand, b) /\ UpTo(queue, b)
    BY <1>3, <1>4, UpToMore DEF Ordered
<1> HIDE DEF b, data
<1>8. /\ Ascends(queue') /\ UpTo(queue', b)
      /\ Before(wire, queue') /\ Before(InHand, queue')
    BY <1>2, <1>3, <1>4, <1>6, <1>7, ConcatOrder DEF Ordered
<1>9. issued' * FrameLen = b
    BY <1>1 DEF b
<1> QED
    BY <1>2, <1>7, <1>8, <1>9 DEF Ordered

LEMMA TakeOrdered ==
    ASSUME TypeOK, Places, Ordered, TakeFinish
    PROVE  Ordered'
<1> DEFINE n == issued * FrameLen
<1>1. GetFinish /\ client' = AfterTake(out') /\ UNCHANGED <<wire, issued>>
    BY DEF TakeFinish, loopVars, netVars
<1>2. getting \in 0 .. Len(queue) /\ out' = SubSeq(queue, 1, getting)
      /\ queue' = SubSeq(queue, getting + 1, Len(queue))
    BY <1>1, GetFacts DEF GetFinish
<1>3. InHand' = out'
    BY <1>1 DEF InHand, AfterTake
<1>4. queue \in Seq(Nat) /\ wire \in Seq(Nat) /\ n \in Nat /\ Len(queue) \in Nat
    BY IssuedBytes, LenProperties DEF TypeOK
<1>5. Ascends(queue) /\ Before(wire, queue) /\ UpTo(queue, n) /\ Ascends(wire) /\ UpTo(wire, n)
    BY DEF Ordered
<1> HIDE DEF n
<1>6. Ascends(out') /\ Before(wire, out') /\ UpTo(out', n)
    BY <1>2, <1>4, <1>5, PartOrder
<1>7. Ascends(queue') /\ Before(wire, queue') /\ UpTo(queue', n)
    <2>1. getting + 1 \in Nat \ {0} /\ Len(queue) \in 0 .. Len(queue)
        BY <1>2, <1>4
    <2> QED
        BY <1>2, <1>4, <1>5, <2>1, PartOrder
<1>8. Before(out', queue')
    BY <1>2, <1>4, <1>5, CutOrder
<1> QED
    BY <1>1, <1>3, <1>5, <1>6, <1>7, <1>8 DEF Ordered, n

LEMMA SendOrdered ==
    ASSUME TypeOK, Ordered, NEW n \in 0 .. FrameLen, Send(n)
    PROVE  Ordered'
<1> DEFINE k == issued * FrameLen
           data == SubSeq(out, 1, n)
<1>1. /\ wire' = wire \o data /\ queue' = queue /\ issued' = issued /\ client' = "nap"
      /\ client = "send" /\ n <= Len(out)
    BY DEF Send, ClientAt, fifoVars, loopVars
<1>2. InHand = out /\ InHand' = <<>>
    BY <1>1 DEF InHand
<1>3. queue \in Seq(Nat) /\ wire \in Seq(Nat) /\ out \in Seq(Nat) /\ k \in Nat
    BY IssuedBytes DEF TypeOK
<1>4. n \in 0 .. Len(out)
    BY <1>1, <1>3, Elements
<1>5. /\ data \in Seq(Nat) /\ Ascends(data) /\ Before(wire, data) /\ Before(data, queue)
      /\ UpTo(data, k)
    BY <1>2, <1>3, <1>4, Part, PartOrder DEF Ordered
<1> HIDE DEF data, k
<1>6. wire' \in Seq(Nat)
    BY <1>1, <1>3, <1>5, Concat
<1>7. Ascends(wire) /\ Before(wire, queue) /\ Ascends(queue) /\ UpTo(wire, k) /\ UpTo(queue, k)
    BY DEF Ordered, k
<1>8. Ascends(wire') /\ Before(wire', queue) /\ UpTo(wire', k)
    BY <1>1, <1>3, <1>5, <1>7, ConcatOrder
<1> QED
    BY <1>1, <1>2, <1>3, <1>6, <1>7, <1>8, EmptyOrder DEF Ordered, k

LEMMA NextOrdered == IInv /\ Ordered /\ [Next]_vars => Ordered'
<1> SUFFICES ASSUME IInv, Ordered, [Next]_vars PROVE Ordered'
    OBVIOUS
<1>1. TypeOK /\ Places
    BY DEF IInv
<1>2. CASE Still
    BY <1>2 DEF Still, Ordered
<1>3. CASE Next
    BY <1>1, <1>2, <1>3, Moves, ResetOrdered, IssueOrdered, TakeOrdered, SendOrdered
<1> QED
    BY <1>2, <1>3, StutterStill

\* Whatever goes wrong, with short puts and sends, lost frames, a reset or a connection
\* that is gone, no byte is sent twice or before an older one.
THEOREM SentInOrder == Spec => []InOrder
<1>1. Spec => []Ordered
    BY InitOrdered, NextOrdered, Inductive, PTL DEF Spec
<1>2. Ordered => InOrder
    BY DEF Ordered, Ascends, InOrder
<1> QED
    BY <1>1, <1>2, PTL

-----------------------------------------------------------------------------
(* Losses: as long as no put or send was cut short and no frame lost to the *)
(* connection, what is on the wire, in hand and in the ring is, end to end, *)
(* all that was issued.                                                     *)

Losses == {"short put", "short send", "lost frame"}

\* The first n bytes of the stream of commands.
First(n) == [i \in 1 .. n |-> i - 1]

LEMMA FirstIs ==
    ASSUME NEW n \in Nat
    PROVE  First(n) \in Seq(Nat) /\ Len(First(n)) = n /\ \A i \in 1 .. n : First(n)[i] = i - 1
<1>1. First(n) \in [1 .. n -> Nat]
    BY DEF First
<1>2. First(n) \in Seq(Nat)
    BY <1>1, SeqDef
<1>3. DOMAIN First(n) = 1 .. n /\ DOMAIN First(n) = 1 .. Len(First(n))
    BY <1>1, <1>2, LenProperties
<1>4. Len(First(n)) \in Nat
    BY <1>2, LenProperties
<1>5. Len(First(n)) = n
    BY <1>3, <1>4
<1> QED
    BY <1>2, <1>5 DEF First

\* The frames before number k, and frame k, are the frames before number k + 1.
LEMMA FirstFrames ==
    ASSUME NEW k \in Nat
    PROVE  First(k * FrameLen) \o Frame(k) = First((k + 1) * FrameLen)
<1> DEFINE a == k * FrameLen
           s == First(a)
           t == Frame(k)
<1>1. a \in Nat /\ (k + 1) * FrameLen = a + FrameLen /\ FrameLen \in Nat
    BY ConstantFacts
<1>2. t \in Seq(Nat) /\ Len(t) = FrameLen
    BY FrameIs
<1>3. \A i \in 1 .. FrameLen : t[i] = a + i - 1
    BY DEF Frame
<1> HIDE DEF a, t
<1>4. s \in Seq(Nat) /\ Len(s) = a /\ \A i \in 1 .. a : s[i] = i - 1
    BY <1>1, FirstIs
<1>5. /\ First(a + FrameLen) \in Seq(Nat) /\ Len(First(a + FrameLen)) = a + FrameLen
      /\ \A i \in 1 .. a + FrameLen : First(a + FrameLen)[i] = i - 1
    BY <1>1, FirstIs
<1> HIDE DEF s
<1>6. s \o t \in Seq(Nat) /\ Len(s \o t) = a + FrameLen
    BY <1>2, <1>4, ConcatProperties
<1>7. \A i \in 1 .. a + FrameLen : (s \o t)[i] = i - 1
    <2> TAKE i \in 1 .. a + FrameLen
    <2>1. (s \o t)[i] = IF i <= a THEN s[i] ELSE t[i - a]
        BY <1>2, <1>4, ConcatProperties
    <2>2. CASE i <= a
        BY <1>1, <1>4, <2>1, <2>2
    <2>3. CASE ~(i <= a)
        <3>1. i - a \in 1 .. FrameLen /\ a + (i - a) - 1 = i - 1
            BY <1>1, <2>3
        <3> QED
            BY <1>3, <2>1, <2>3, <3>1
    <2> QED
        BY <2>2, <2>3
<1>8. s \o t = First(a + FrameLen)
    BY <1>5, <1>6, <1>7, SeqEqual
<1> QED
    BY <1>1, <1>8 DEF a, s, t

-----------------------------------------------------------------------------
LEMMA InitNoLoss == Init => NoLoss
<1> SUFFICES ASSUME Init PROVE wire \o InHand \o queue = First(issued * FrameLen)
    BY DEF NoLoss, First
<1>1. wire = <<>> /\ queue = <<>> /\ InHand = <<>> /\ issued * FrameLen = 0
    BY ConstantFacts DEF Init, FifoInit, InHand
<1>2. <<>> \in Seq(Nat) /\ Len(<<>>) = 0 /\ First(0) \in Seq(Nat) /\ Len(First(0)) = 0
    BY EmptySeq, FirstIs
<1>3. First(0) = <<>>
    BY <1>2, SeqEqual
<1>4. <<>> \o <<>> \o <<>> = <<>>
    BY <1>2, ConcatEmptySeq
<1> QED
    BY <1>1, <1>3, <1>4

\* No fault is forgotten.
LEMMA FaultsKept ==
    ASSUME Next
    PROVE  faults \subseteq faults'
<1>1. CASE Main
    BY <1>1 DEF Main, MainSocket, MainConnect, MainFcntl, SpawnClient, SpawnLoop
<1>2. CASE Loop
    BY <1>2 DEF Loop, LoopWake, IssueStart, IssueFinish
<1>3. CASE (\E n \in 1 .. FrameLen : ReadBytes(n)) \/ ReadNothing \/ ReadEof \/ ReadError
    BY <1>3 DEF ReadBytes, ReadNothing, ReadEof, ReadError
<1>4. CASE Reconnect \/ Nap \/ TakeStart \/ TakeFinish
    BY <1>4 DEF Reconnect, Nap, TakeStart, TakeFinish
<1>5. CASE (\E n \in 0 .. FrameLen : Send(n)) \/ SendReset \/ SendKills
    BY <1>5 DEF Send, SendReset, SendKills
<1>6. CASE Peer
    BY <1>6 DEF Peer, PeerSends, PeerCloses, PeerResets
<1> QED
    BY <1>1, <1>2, <1>3, <1>4, <1>5, <1>6 DEF Next, Client

LEMMA Regroup == \A s, t, u \in Seq(Nat) : (s \o t) \o u = s \o (t \o u)
BY ConcatAssociative, SMTT(30)

LEMMA NoLess ==
    ASSUME NEW f \in Nat, NEW p \in 0 .. f, ~(p < f)
    PROVE  p = f
OBVIOUS

LEMMA IssueWhole ==
    ASSUME TypeOK, Places, IssueFinish, "short put" \notin faults',
           wire \o InHand \o queue = First(issued * FrameLen)
    PROVE  (wire \o InHand \o queue)' = First(issued' * FrameLen)
<1>1. /\ PutFinish(Frame(issued)) /\ issued' = issued + 1 /\ UNCHANGED <<wire, client, out>>
      /\ faults' = faults \cup IF putting < FrameLen THEN {"short put"} ELSE {}
    BY DEF IssueFinish, PutFinish, clientVars, netVars
<1>2. issued \in Nat /\ queue \in Seq(Nat) /\ wire \in Seq(Nat) /\ InHand \in Seq(Nat)
    BY InHandTyped DEF TypeOK
<1>3. putting = FrameLen
    <2>1. ~(putting < FrameLen)
        BY <1>1, Zenon
    <2>2. putting \in 0 .. FrameLen
        BY <1>1, PutFacts
    <2>3. FrameLen \in Nat
        BY ConstantFacts
    <2> QED
        BY <2>1, <2>2, <2>3, NoLess, Zenon
<1>4. Frame(issued) \in Seq(Nat) /\ SubSeq(Frame(issued), 1, putting) = Frame(issued)
    BY <1>2, <1>3, FrameIs, SubSeqFull
<1>5. queue' = queue \o Frame(issued) /\ wire' = wire /\ InHand' = InHand
    BY <1>1, <1>4 DEF PutFinish, InHand
<1>6. wire \o InHand \in Seq(Nat)
    BY <1>2, ConcatProperties
<1>7. (wire \o InHand) \o (queue \o Frame(issued)) = ((wire \o InHand) \o queue) \o Frame(issued)
    BY <1>2, <1>4, <1>6, Regroup, ZenonT(30)
<1> QED
    BY <1>1, <1>2, <1>5, <1>7, FirstFrames

LEMMA TakeWhole ==
    ASSUME TypeOK, Places, TakeFinish
    PROVE  (wire \o InHand \o queue)' = wire \o InHand \o queue /\ issued' = issued
<1>1. /\ GetFinish /\ client = "take" /\ client' = AfterTake(out')
      /\ UNCHANGED <<wire, issued>>
    BY DEF TakeFinish, ClientAt, loopVars, netVars
<1>2. /\ getting \in 0 .. Len(queue) /\ queue' \in Seq(Nat) /\ out' \in Seq(Nat)
      /\ out' = SubSeq(queue, 1, getting)
      /\ queue' = SubSeq(queue, getting + 1, Len(queue))
    BY <1>1, GetFacts DEF GetFinish
<1>3. queue \in Seq(Nat) /\ wire \in Seq(Nat) /\ Len(queue) \in Nat
    BY LenProperties DEF TypeOK
<1>4. out' \o queue' = queue
    <2> DEFINE n == Len(queue)
               g == getting
    <2>1. 1 \in 1 .. n + 1 /\ g \in 1 - 1 .. n /\ n \in g .. n
        BY <1>2, <1>3
    <2>2. SubSeq(queue, 1, g) \o SubSeq(queue, g + 1, n) = SubSeq(queue, 1, n)
        BY <1>3, <2>1, ConcatAdjacentSubSeq
    <2> QED
        BY <1>2, <1>3, <2>2, SubSeqFull
<1>5. InHand = <<>> /\ InHand' = out'
    BY <1>1 DEF InHand, AfterTake
<1>6. wire \o <<>> = wire
    BY <1>3, ConcatEmptySeq
<1>7. (wire \o out') \o queue' = wire \o (out' \o queue')
    BY <1>2, <1>3, Regroup, ZenonT(30)
<1> QED
    BY <1>1, <1>4, <1>5, <1>6, <1>7

LEMMA SendWhole ==
    ASSUME TypeOK, NEW n \in 0 .. FrameLen, Send(n), faults' \cap Losses = {}
    PROVE  (wire \o InHand \o queue)' = wire \o InHand \o queue /\ issued' = issued
<1>1. /\ wire' = wire \o SubSeq(out, 1, n) /\ queue' = queue /\ issued' = issued
      /\ client' = "nap" /\ client = "send"
    BY DEF Send, ClientAt, fifoVars, loopVars
<1>2. InHand = out /\ InHand' = <<>>
    BY <1>1 DEF InHand
<1>3. queue \in Seq(Nat) /\ wire \in Seq(Nat) /\ out \in Seq(Nat)
    BY DEF TypeOK
<1>4. n = Len(out)
    BY DEF Send, Losses
<1>5. wire' = wire \o out
    BY <1>1, <1>3, <1>4, SubSeqFull
<1>6. wire \o out \in Seq(Nat)
    BY <1>3, ConcatProperties
<1>7. (wire \o out) \o <<>> = wire \o out
    BY <1>6, ConcatEmptySeq
<1> QED
    BY <1>1, <1>2, <1>5, <1>7

LEMMA NextNoLoss == IInv /\ NoLoss /\ [Next]_vars => NoLoss'
<1> SUFFICES ASSUME IInv, NoLoss, [Next]_vars, faults' \cap Losses = {}
             PROVE  (wire \o InHand \o queue)' = First(issued' * FrameLen)
    BY DEF NoLoss, Losses, First
<1>1. TypeOK /\ Places
    BY DEF IInv
<1>2. faults \cap Losses = {}
    BY FaultsKept DEF vars
<1>3. wire \o InHand \o queue = First(issued * FrameLen)
    BY <1>2 DEF NoLoss, Losses, First
<1>4. CASE Still
    BY <1>3, <1>4 DEF Still
<1>5. CASE IssueFinish
    BY <1>1, <1>3, <1>5, IssueWhole DEF Losses
<1>6. CASE TakeFinish
    BY <1>1, <1>3, <1>6, TakeWhole
<1>7. CASE SendReset
    BY <1>7 DEF SendReset, Losses
<1>8. CASE \E n \in 0 .. FrameLen : Send(n)
    BY <1>1, <1>3, <1>8, SendWhole
<1>9. CASE Next
    BY <1>1, <1>4, <1>5, <1>6, <1>7, <1>8, <1>9, Moves
<1> QED
    BY <1>4, <1>9, StutterStill

\* Until a put or a send is cut short or a frame is lost to the connection, every byte
\* issued is on the wire, in hand or in the ring, once and in order.
THEOREM NothingLost == Spec => []NoLoss
BY InitNoLoss, NextNoLoss, Inductive, PTL DEF Spec

-----------------------------------------------------------------------------
(* Frames: the ring holds whole frames until a put is cut short, and the    *)
(* peer receives whole frames until a send is, too.                         *)

\* From s[o + 1] on lies command number c.
FrameAt(s, o, c) == \A i \in 1 .. FrameLen : s[o + i] = c * FrameLen + i - 1

\* s is made of m whole frames.
Consists(s, m) ==
    /\ Len(s) = m * FrameLen
    /\ \A k \in Nat : k < m => \E c \in Nat : FrameAt(s, k * FrameLen, c)

Framewise(s) == \E m \in Nat : Consists(s, m)

Intact ==
    /\ "short put" \notin faults =>
           /\ Framewise(queue)
           /\ getting \in {Idle, 0, FrameLen}
    /\ faults \cap {"short put", "short send"} = {} => Framewise(wire) /\ Framewise(InHand)

-----------------------------------------------------------------------------
(* Whole frames and the operators on sequences.                             *)

LEMMA Multiples ==
    ASSUME NEW a \in Nat, NEW b \in Nat
    PROVE  /\ a * FrameLen \in Nat
           /\ (a + b) * FrameLen = a * FrameLen + b * FrameLen
           /\ (a + 1) * FrameLen = a * FrameLen + FrameLen
           /\ a < b => a * FrameLen + FrameLen <= b * FrameLen
<1>1. FrameLen \in Nat
    BY ConstantFacts
<1>2. a * FrameLen \in Nat /\ (a + b) * FrameLen = a * FrameLen + b * FrameLen
      /\ (a + 1) * FrameLen = a * FrameLen + FrameLen
    BY <1>1
<1>3. ASSUME a < b
      PROVE  a * FrameLen + FrameLen <= b * FrameLen
    <2> DEFINE d == b - (a + 1)
    <2>1. d \in Nat /\ b = a + 1 + d
        BY <1>3
    <2> HIDE DEF d
    <2>2. b * FrameLen = a * FrameLen + FrameLen + d * FrameLen /\ d * FrameLen \in Nat
        BY <1>1, <2>1
    <2> QED
        BY <1>1, <1>2, <2>2
<1> QED
    BY <1>2, <1>3

LEMMA FramewiseEmpty == Framewise(<<>>)
<1>1. Len(<<>>) = 0 /\ 0 * FrameLen = 0
    BY EmptySeq, ConstantFacts
<1>2. Consists(<<>>, 0)
    BY <1>1 DEF Consists
<1> QED
    BY <1>2 DEF Framewise

LEMMA FramewiseFrame == ASSUME NEW c \in Nat PROVE Framewise(Frame(c))
<1>1. Len(Frame(c)) = FrameLen /\ 1 * FrameLen = FrameLen /\ 0 * FrameLen = 0
    BY FrameIs, ConstantFacts
<1>2. FrameAt(Frame(c), 0, c)
    BY ConstantFacts DEF FrameAt, Frame
<1>3. \A k \in Nat : k < 1 => k = 0
    OBVIOUS
<1>4. Consists(Frame(c), 1)
    BY <1>1, <1>2, <1>3 DEF Consists
<1> QED
    BY <1>4 DEF Framewise

LEMMA FramewiseConcat ==
    ASSUME NEW s \in Seq(Nat), NEW t \in Seq(Nat), Framewise(s), Framewise(t)
    PROVE  Framewise(s \o t)
<1>1. PICK m \in Nat, n \in Nat : Consists(s, m) /\ Consists(t, n)
    BY DEF Framewise
<1> DEFINE u == s \o t
           a == m * FrameLen
           b == n * FrameLen
<1>2. a \in Nat /\ b \in Nat /\ (m + n) * FrameLen = a + b /\ FrameLen \in Nat
    BY Multiples, ConstantFacts
<1>3. Len(s) = a /\ Len(t) = b
    BY <1>1 DEF Consists
<1>4. Len(u) = a + b /\ \A i \in 1 .. a + b : u[i] = IF i <= a THEN s[i] ELSE t[i - a]
    <2>1. /\ Len(u) = Len(s) + Len(t)
          /\ \A i \in 1 .. Len(s) + Len(t) : u[i] = IF i <= Len(s) THEN s[i] ELSE t[i - Len(s)]
        BY ConcatProperties
    <2> HIDE DEF a, b, u
    <2> QED
        BY <1>3, <2>1
<1> HIDE DEF u
<1>5. ASSUME NEW k \in Nat, k < m
      PROVE  \E c \in Nat : FrameAt(u, k * FrameLen, c)
    <2>1. PICK c \in Nat : FrameAt(s, k * FrameLen, c)
        BY <1>1, <1>5 DEF Consists
    <2> DEFINE o == k * FrameLen
    <2>2. o \in Nat /\ o + FrameLen <= a
        BY <1>5, Multiples
    <2> HIDE DEF o, a, b
    <2>3. \A i \in 1 .. FrameLen : u[o + i] = s[o + i]
        <3> TAKE i \in 1 .. FrameLen
        <3>1. o + i \in 1 .. a + b /\ o + i <= a
            BY <1>2, <2>2
        <3> QED
            BY <1>4, <3>1
    <2> QED
        BY <2>1, <2>3 DEF FrameAt, o
<1>6. ASSUME NEW k \in Nat, k < m + n, ~(k < m)
      PROVE  \E c \in Nat : FrameAt(u, k * FrameLen, c)
    <2> DEFINE l == k - m
               o == l * FrameLen
    <2>1. l \in Nat /\ l < n /\ k = m + l
        BY <1>6
    <2>2. PICK c \in Nat : FrameAt(t, o, c)
        BY <1>1, <2>1 DEF Consists
    <2> HIDE DEF l
    <2>3. o \in Nat /\ o + FrameLen <= b /\ k * FrameLen = a + o
        BY <2>1, Multiples
    <2> HIDE DEF o, a, b
    <2>4. \A i \in 1 .. FrameLen : u[(a + o) + i] = t[o + i]
        <3> TAKE i \in 1 .. FrameLen
        <3>1. /\ (a + o) + i \in 1 .. a + b /\ ~((a + o) + i <= a)
              /\ ((a + o) + i) - a = o + i
            BY <1>2, <2>3
        <3> QED
            BY <1>4, <3>1
    <2> QED
        BY <2>2, <2>3, <2>4 DEF FrameAt
<1>7. Consists(u, m + n)
    BY <1>2, <1>4, <1>5, <1>6 DEF Consists
<1>8. m + n \in Nat
    OBVIOUS
<1> QED
    BY <1>7, <1>8 DEF Framewise, u

\* The first frame, and what follows it.
LEMMA FramewiseCut ==
    ASSUME NEW s \in Seq(Nat), Framewise(s), FrameLen <= Len(s)
    PROVE  /\ Framewise(SubSeq(s, 1, FrameLen))
           /\ Framewise(SubSeq(s, FrameLen + 1, Len(s)))
<1>1. PICK m \in Nat : Consists(s, m)
    BY DEF Framewise
<1> DEFINE l == Len(s)
           p == SubSeq(s, 1, FrameLen)
           q == SubSeq(s, FrameLen + 1, l)
<1>2. l \in Nat /\ FrameLen \in Nat \ {0} /\ FrameLen <= l /\ \A i \in 1 .. l : s[i] \in Nat
    BY ConstantFacts, Elements
<1>3. l = m * FrameLen
    BY <1>1 DEF Consists
<1> HIDE DEF l
<1>4. m > 0
    <2>1. 0 * FrameLen = 0
        BY <1>2
    <2>2. m # 0
        BY <1>2, <1>3, <2>1
    <2> QED
        BY <2>2
<1>5. Len(p) = FrameLen /\ \A i \in 1 .. FrameLen : p[i] = s[i]
    <2>1. \A i \in 1 .. FrameLen : s[i] \in Nat
        BY <1>2
    <2>2. /\ Len(p) = IF 1 <= FrameLen THEN FrameLen - 1 + 1 ELSE 0
          /\ \A i \in 1 .. FrameLen - 1 + 1 : p[i] = s[1 + i - 1]
        BY <1>2, <2>1, SubSeqProperties
    <2> QED
        BY <1>2, <2>2
<1>6. Len(q) = l - FrameLen /\ \A i \in 1 .. l - FrameLen : q[i] = s[FrameLen + i]
    <2>1. \A i \in FrameLen + 1 .. l : s[i] \in Nat
        BY <1>2
    <2>2. /\ Len(q) = IF FrameLen + 1 <= l THEN l - (FrameLen + 1) + 1 ELSE 0
          /\ \A i \in 1 .. l - (FrameLen + 1) + 1 : q[i] = s[FrameLen + 1 + i - 1]
        BY <1>2, <2>1, SubSeqProperties
    <2> QED
        BY <1>2, <2>2
<1> HIDE DEF p, q
<1>7. Framewise(p)
    <2>1. PICK c \in Nat : FrameAt(s, 0 * FrameLen, c)
        BY <1>1, <1>4 DEF Consists
    <2>2. 0 * FrameLen = 0 /\ 1 * FrameLen = FrameLen /\ \A k \in Nat : k < 1 => k = 0
        BY <1>2
    <2>3. \A i \in 1 .. FrameLen : 0 + i = i
        BY <1>2
    <2>4. FrameAt(p, 0, c)
        BY <1>5, <2>1, <2>2, <2>3 DEF FrameAt
    <2>5. Consists(p, 1)
        BY <1>5, <2>2, <2>4 DEF Consists
    <2> QED
        BY <2>5 DEF Framewise
<1>8. Framewise(q)
    <2> DEFINE n == m - 1
    <2>1. n \in Nat /\ m = n + 1
        BY <1>4
    <2> HIDE DEF n
    <2>2. l - FrameLen = n * FrameLen /\ n * FrameLen \in Nat
        BY <1>2, <1>3, <2>1, Multiples
    <2>3. ASSUME NEW k \in Nat, k < n
          PROVE  \E c \in Nat : FrameAt(q, k * FrameLen, c)
        <3> DEFINE o == k * FrameLen
        <3>1. PICK c \in Nat : FrameAt(s, (k + 1) * FrameLen, c)
            BY <1>1, <2>1, <2>3 DEF Consists
        <3>2. o \in Nat /\ o + FrameLen <= n * FrameLen /\ (k + 1) * FrameLen = o + FrameLen
            BY <2>1, <2>3, Multiples
        <3> HIDE DEF o
        <3>3. \A i \in 1 .. FrameLen : q[o + i] = s[(o + FrameLen) + i]
            <4> TAKE i \in 1 .. FrameLen
            <4>1. o + i \in 1 .. l - FrameLen /\ FrameLen + (o + i) = (o + FrameLen) + i
                BY <1>2, <2>2, <3>2
            <4> QED
                BY <1>6, <4>1
        <3>4. FrameAt(s, o + FrameLen, c)
            BY <3>1, <3>2
        <3>5. FrameAt(q, o, c)
            BY <3>3, <3>4 DEF FrameAt
        <3> QED
            BY <3>5 DEF o
    <2>4. Consists(q, n)
        BY <1>6, <2>2, <2>3 DEF Consists
    <2> QED
        BY <2>1, <2>4 DEF Framewise
<1> QED
    BY <1>7, <1>8 DEF p, q, l

\* Whole, as GatewayClient has it.
LEMMA FramewiseWhole ==
    ASSUME NEW s \in Seq(Nat), Framewise(s)
    PROVE  Whole(s)
<1>1. PICK m \in Nat : Consists(s, m)
    BY DEF Framewise
<1>2. Len(s) = m * FrameLen /\ FrameLen \in Nat \ {0}
    BY <1>1, ConstantFacts DEF Consists
<1>3. Len(s) % FrameLen = 0 /\ Len(s) \div FrameLen = m
    BY <1>2
<1>4. ASSUME NEW k \in 0 .. m - 1
      PROVE  SubSeq(s, k * FrameLen + 1, (k + 1) * FrameLen)
                 = Frame(SubSeq(s, k * FrameLen + 1, (k + 1) * FrameLen)[1] \div FrameLen)
    <2> DEFINE o == k * FrameLen
               f == SubSeq(s, o + 1, o + FrameLen)
    <2>1. k \in Nat /\ k < m
        OBVIOUS
    <2>2. PICK c \in Nat : FrameAt(s, o, c)
        BY <1>1, <2>1 DEF Consists
    <2>3. o \in Nat /\ o + FrameLen <= Len(s) /\ (k + 1) * FrameLen = o + FrameLen
        BY <1>2, <2>1, Multiples
    <2> HIDE DEF o
    <2>4. \A i \in 1 .. Len(s) : s[i] \in Nat
        BY Elements
    <2>5. o + 1 .. o + FrameLen \subseteq 1 .. Len(s)
        BY <1>2, <2>3, Elements
    <2>6. /\ f \in Seq(Nat)
          /\ Len(f) = IF o + 1 <= o + FrameLen THEN (o + FrameLen) - (o + 1) + 1 ELSE 0
          /\ \A i \in 1 .. (o + FrameLen) - (o + 1) + 1 : f[i] = s[(o + 1) + i - 1]
        BY <1>2, <2>3, <2>4, <2>5, SubSeqProperties
    <2> HIDE DEF f
    <2>7. Len(f) = FrameLen /\ \A i \in 1 .. FrameLen : f[i] = s[o + i]
        <3>1. (o + FrameLen) - (o + 1) + 1 = FrameLen /\ o + 1 <= o + FrameLen
            BY <1>2, <2>3
        <3>2. Len(f) = FrameLen /\ \A i \in 1 .. FrameLen : f[i] = s[(o + 1) + i - 1]
            BY <2>6, <3>1
        <3>3. \A i \in 1 .. FrameLen : (o + 1) + i - 1 = o + i
            BY <1>2, <2>3
        <3> QED
            BY <3>2, <3>3
    <2>8. \A i \in 1 .. FrameLen : f[i] = c * FrameLen + i - 1
        BY <2>2, <2>7 DEF FrameAt
    <2>9. f = Frame(c)
        <3>1. \A i \in 1 .. FrameLen : Frame(c)[i] = c * FrameLen + i - 1
            BY DEF Frame
        <3>2. Frame(c) \in Seq(Nat) /\ Len(Frame(c)) = FrameLen
            BY FrameIs
        <3> QED
            BY <2>6, <2>7, <2>8, <3>1, <3>2, SeqEqual
    <2>10. f[1] \div FrameLen = c
        <3>1. f[1] = c * FrameLen + 1 - 1 /\ c * FrameLen \in Nat
            BY <1>2, <2>8
        <3>2. f[1] = c * FrameLen
            BY <3>1
        <3> QED
            BY <1>2, <3>2
    <2> QED
        BY <2>3, <2>9, <2>10 DEF f, o
<1> QED
    BY <1>3, <1>4 DEF Whole

-----------------------------------------------------------------------------
LEMMA InitIntact == Init => Intact
BY FramewiseEmpty DEF Init, FifoInit, InHand, Intact

\* Only a get takes hold of bytes.
LEMMA Gets ==
    ASSUME Next
    PROVE  getting' = getting \/ TakeStart \/ TakeFinish
<1>1. CASE Main
    BY <1>1 DEF Main, MainSocket, MainConnect, MainFcntl, SpawnClient, SpawnLoop, fifoVars
<1>2. CASE Loop
    BY <1>2 DEF Loop, LoopWake, IssueStart, IssueFinish, PutStart, PutFinish, fifoVars
<1>3. CASE (\E n \in 1 .. FrameLen : ReadBytes(n)) \/ ReadNothing \/ ReadEof \/ ReadError
    BY <1>3 DEF ReadBytes, ReadNothing, ReadEof, ReadError, fifoVars
<1>4. CASE Reconnect \/ Nap \/ (\E n \in 0 .. FrameLen : Send(n)) \/ SendReset \/ SendKills
    BY <1>4 DEF Reconnect, Nap, Send, SendReset, SendKills, fifoVars
<1>5. CASE Peer
    BY <1>5 DEF Peer, PeerSends, PeerCloses, PeerResets, fifoVars
<1> QED
    BY <1>1, <1>2, <1>3, <1>4, <1>5 DEF Next, Client

\* The length a get decides on is a frame's, or 0.
LEMMA WholeGet ==
    ASSUME TypeOK, Framewise(queue), TakeStart
    PROVE  getting' \in {0, FrameLen}
<1>1. getting' = Lesser(FrameLen, Len(queue))
    BY DEF TakeStart, GetStart
<1>2. PICK m \in Nat : Consists(queue, m)
    BY DEF Framewise
<1>3. Len(queue) = m * FrameLen /\ FrameLen \in Nat
    BY <1>2, ConstantFacts DEF Consists
<1>4. CASE m = 0
    <2>1. Len(queue) = 0
        BY <1>3, <1>4
    <2> QED
        BY <1>1, <1>3, <2>1 DEF Lesser
<1>5. CASE 0 < m
    <2>1. 0 * FrameLen + FrameLen <= m * FrameLen /\ 0 * FrameLen = 0
        BY <1>3, <1>5, Multiples
    <2>2. m * FrameLen \in Nat
        BY Multiples
    <2>3. ~(Len(queue) < FrameLen)
        BY <1>3, <2>1, <2>2
    <2> QED
        BY <1>1, <1>3, <2>2, <2>3 DEF Lesser
<1> QED
    BY <1>4, <1>5

LEMMA IssueIntact ==
    ASSUME TypeOK, Places, Intact, IssueFinish
    PROVE  Intact'
<1>1. /\ PutFinish(Frame(issued)) /\ UNCHANGED <<wire, client, out, getting>>
      /\ faults' = faults \cup IF putting < FrameLen THEN {"short put"} ELSE {}
    BY DEF IssueFinish, PutFinish, clientVars, netVars
<1>2. issued \in Nat /\ queue \in Seq(Nat)
    BY DEF TypeOK
<1>3. wire' = wire /\ InHand' = InHand /\ getting' = getting /\ faults \subseteq faults'
    BY <1>1 DEF InHand
<1>4. ASSUME "short put" \notin faults'
      PROVE  Framewise(queue')
    <2>1. ~(putting < FrameLen)
        BY <1>1, <1>4, Zenon
    <2>2. putting \in 0 .. FrameLen
        BY <1>1, PutFacts
    <2>3. FrameLen \in Nat
        BY ConstantFacts
    <2>4. putting = FrameLen
        BY <2>1, <2>2, <2>3, NoLess, Zenon
    <2>5. Frame(issued) \in Seq(Nat) /\ SubSeq(Frame(issued), 1, putting) = Frame(issued)
        BY <1>2, <2>4, FrameIs, SubSeqFull
    <2>6. queue' = queue \o Frame(issued)
        BY <1>1, <2>5 DEF PutFinish
    <2>7. Framewise(queue) /\ Framewise(Frame(issued))
        BY <1>2, <1>3, <1>4, FramewiseFrame DEF Intact
    <2> QED
        BY <1>2, <2>5, <2>6, <2>7, FramewiseConcat
<1> QED
    BY <1>3, <1>4 DEF Intact

LEMMA TakeIntact ==
    ASSUME TypeOK, Places, Intact, TakeFinish
    PROVE  Intact'
<1>1. /\ GetFinish /\ client' = AfterTake(out') /\ UNCHANGED <<wire, faults>>
      /\ getting # Idle /\ getting' = Idle
    BY DEF TakeFinish, GetFinish, netVars
<1>2. /\ getting \in 0 .. Len(queue) /\ queue' \in Seq(Nat)
      /\ out' = SubSeq(queue, 1, getting)
      /\ queue' = SubSeq(queue, getting + 1, Len(queue))
    BY <1>1, GetFacts DEF GetFinish
<1>3. InHand' = out'
    BY <1>1 DEF InHand, AfterTake
<1>4. queue \in Seq(Nat) /\ Len(queue) \in Nat
    BY LenProperties DEF TypeOK
<1>5. ASSUME "short put" \notin faults
      PROVE  Framewise(out') /\ Framewise(queue')
    <2>1. Framewise(queue) /\ getting \in {0, FrameLen}
        BY <1>1, <1>5 DEF Intact
    <2>2. CASE getting = 0
        <3>1. out' = <<>>
            BY <1>2, <2>2, SubSeqEmpty
        <3>2. queue' = queue
            BY <1>2, <1>4, <2>2, SubSeqFull
        <3> QED
            BY <2>1, <3>1, <3>2, FramewiseEmpty
    <2>3. CASE getting = FrameLen
        <3>1. FrameLen <= Len(queue)
            BY <1>2, <1>4, <2>3
        <3> QED
            BY <1>2, <1>4, <2>1, <2>3, <3>1, FramewiseCut
    <2> QED
        BY <2>1, <2>2, <2>3
<1> QED
    BY <1>1, <1>3, <1>5 DEF Intact

LEMMA SendIntact ==
    ASSUME TypeOK, Intact, NEW n \in 0 .. FrameLen, Send(n)
    PROVE  Intact'
<1>1. /\ wire' = wire \o SubSeq(out, 1, n) /\ queue' = queue /\ getting' = getting
      /\ client' = "nap" /\ client = "send" /\ faults \subseteq faults'
    BY DEF Send, ClientAt, fifoVars
<1>2. InHand = out /\ InHand' = <<>>
    BY <1>1 DEF InHand
<1>3. wire \in Seq(Nat) /\ out \in Seq(Nat) /\ <<>> \in Seq(Nat)
    BY EmptySeq DEF TypeOK
<1>4. ASSUME faults' \cap {"short put", "short send"} = {}
      PROVE  Framewise(wire')
    <2>1. Framewise(wire) /\ Framewise(out)
        BY <1>1, <1>2, <1>4 DEF Intact
    <2>2. n = Len(out) \/ n = 0
        BY <1>4 DEF Send
    <2>3. CASE n = Len(out)
        <3>1. wire' = wire \o out
            BY <1>1, <1>3, <2>3, SubSeqFull
        <3> QED
            BY <1>3, <2>1, <3>1, FramewiseConcat
    <2>4. CASE n = 0
        <3>1. SubSeq(out, 1, n) = <<>>
            BY <2>4, SubSeqEmpty
        <3> QED
            BY <1>1, <1>3, <2>1, <3>1, ConcatEmptySeq
    <2> QED
        BY <2>2, <2>3, <2>4
<1> QED
    BY <1>1, <1>2, <1>4, FramewiseEmpty DEF Intact

LEMMA NextIntact == IInv /\ Intact /\ [Next]_vars => Intact'
<1> SUFFICES ASSUME IInv, Intact, [Next]_vars PROVE Intact'
    OBVIOUS
<1>1. TypeOK /\ Places
    BY DEF IInv
<1>2. CASE UNCHANGED vars
    BY <1>2 DEF vars, fifoVars, clientVars, netVars, Intact, InHand
<1>3. CASE IssueFinish
    BY <1>1, <1>3, IssueIntact
<1>4. CASE TakeFinish
    BY <1>1, <1>4, TakeIntact
<1>5. CASE \E n \in 0 .. FrameLen : Send(n)
    BY <1>1, <1>5, SendIntact
<1>6. CASE SendReset
    <2>1. /\ UNCHANGED <<queue, getting, wire>> /\ InHand' = <<>> /\ faults \subseteq faults'
        BY <1>6 DEF SendReset, fifoVars, InHand
    <2> QED
        BY <2>1, FramewiseEmpty DEF Intact
<1>7. CASE Still /\ Next
    <2>1. UNCHANGED <<queue, wire>> /\ InHand' = InHand /\ faults \subseteq faults'
        BY <1>7, FaultsKept DEF Still
    <2>2. CASE getting' = getting
        BY <2>1, <2>2 DEF Intact
    <2>3. CASE TakeStart
        <3>1. "short put" \notin faults => getting' \in {0, FrameLen}
            BY <1>1, <2>3, WholeGet DEF Intact
        <3> QED
            BY <2>1, <3>1 DEF Intact
    <2> QED
        BY <1>4, <1>7, <2>2, <2>3, Gets
<1> QED
    BY <1>1, <1>2, <1>3, <1>4, <1>5, <1>6, <1>7, Moves

LEMMA IntactAlways == Spec => [](TypeOK /\ Intact)
<1>1. IInv => TypeOK
    BY DEF IInv
<1> QED
    BY <1>1, InitIntact, NextIntact, Inductive, PTL DEF Spec

\* Until a put is cut short by a full ring, the ring holds whole frames and a get takes
\* a whole frame or nothing, whenever it comes during a put.
THEOREM RingWhole == Spec => []WholeFrames
<1>1. TypeOK /\ Intact => WholeFrames
    BY FramewiseWhole DEF TypeOK, Intact, WholeFrames
<1> QED
    BY <1>1, IntactAlways, PTL

\* Until a put or a send is cut short, the peer can tell the frames apart: a frame may
\* be missing, none is torn.
THEOREM WireFramed == Spec => []Framed
<1>1. TypeOK /\ Intact => Framed
    BY FramewiseWhole DEF TypeOK, Intact, Framed
<1> QED
    BY <1>1, IntactAlways, PTL
=============================================================================
