---------------------------- MODULE GatewayClient ----------------------------
(***************************************************************************)
(* main.c: the gateway client.  main connects one TCP socket and starts    *)
(* two threads.  pthread_loop issues CAN commands by putting frames into   *)
(* the transmit ring; thread_client owns the socket: in every turn it      *)
(* reads one frame, reconnects if the link was found lost, and sends one   *)
(* frame from the ring.  The ring is ByteFifo, which RingBuffer            *)
(* implements, so a put and a get of the two threads overlap as they do    *)
(* there.                                                                  *)
(*                                                                         *)
(* Bytes are numbered.  Byte number b of the commands issued is byte       *)
(* b % FrameLen of frame b \div FrameLen, and the same holds of the bytes  *)
(* the peer sends; 13-byte frames and a ring of 2048 become FrameLen and   *)
(* Capacity, again with a ring that is no whole number of frames.  What a  *)
(* frame says is left to CanCommands and DeviceMirror.                     *)
(*                                                                         *)
(* The sockets layer is not part of the repository: it is modelled by what *)
(* the calls of main.c may meet, a stream that may be read or written in   *)
(* parts, be closed or reset by the peer, and whose send raises SIGPIPE    *)
(* once the connection is known to be gone.                                *)
(***************************************************************************)
EXTENDS ByteFifo

CONSTANTS
    FrameLen,    \* sizeof(socket_frame_t)
    MaxFrames,   \* bound: commands issued in a behaviour
    MaxInbound   \* bound: bytes the peer sends in a behaviour

ASSUME GatewayAssumption ==
    /\ FrameLen \in Nat \ {0}
    /\ MaxFrames \in Nat
    /\ MaxInbound \in Nat

VARIABLES
    program,     \* "running", "exited" or "killed" by SIGPIPE
    main,        \* where main is
    loop,        \* where pthread_loop is, "none" while it is not created
    todo,        \* commands pthread_loop has still to issue in this round
    initFlag,    \* init_flag
    client,      \* where thread_client is, "none" while it is not created
    connected,   \* is_connected = 1
    nbytes,      \* what the last read returned: "none", "again", "data", "eof", "error"
    recvFrame,   \* recv_frame, the message last handed to can_device_msg_parse
    sock,        \* the connection, as the kernel knows it
    arrived,     \* bytes the peer has sent
    taken,       \* bytes thread_client has read
    issued,      \* commands issued
    wire,        \* the bytes the kernel has accepted for the peer
    late,        \* history: commands issued since the loss was noticed
    faults       \* history: the faults met that a caller ignores

procVars == <<program, main>>
loopVars == <<loop, todo, initFlag, issued, late>>
clientVars == <<client, connected, nbytes, recvFrame>>
netVars == <<sock, arrived, taken, wire>>
vars == <<fifoVars, procVars, loopVars, clientVars, netVars, faults>>

Unread == -1

\* The bytes of command number n, of the frame the peer sent as number n.
Frame(n) == [i \in 1 .. FrameLen |-> (n * FrameLen) + i - 1]

Init ==
    /\ FifoInit
    /\ program = "running"
    /\ main = "socket"
    /\ loop = "none"
    /\ todo = 0
    /\ initFlag = FALSE
    /\ client = "none"
    /\ connected = FALSE
    /\ nbytes = "none"
    /\ recvFrame = [i \in 1 .. FrameLen |-> Unread]
    /\ sock = "none"
    /\ arrived = 0
    /\ taken = 0
    /\ issued = 0
    /\ wire = <<>>
    /\ late = 0
    /\ faults = {}

-----------------------------------------------------------------------------
(* main                                                                     *)

MainAt(here) == program = "running" /\ main = here

Exit ==
    /\ program' = "exited"
    /\ sock' = "none"
    /\ UNCHANGED <<main, connected>>

MainSocket ==
    /\ MainAt("socket")
    /\ \/ Exit
       \/ main' = "connect" /\ sock' = "fresh" /\ UNCHANGED <<program, connected>>
    /\ UNCHANGED <<fifoVars, loopVars, client, nbytes, recvFrame, arrived, taken, wire, faults>>

MainConnect ==
    /\ MainAt("connect")
    /\ \/ Exit
       \/ main' = "fcntl" /\ sock' = "up" /\ connected' = TRUE /\ UNCHANGED program
    /\ UNCHANGED <<fifoVars, loopVars, client, nbytes, recvFrame, arrived, taken, wire, faults>>

MainFcntl ==
    /\ MainAt("fcntl")
    /\ \/ Exit
       \/ main' = "spawn client" /\ UNCHANGED <<program, sock, connected>>
    /\ UNCHANGED <<fifoVars, loopVars, client, nbytes, recvFrame, arrived, taken, wire, faults>>

\* A pthread_create that fails leaves the program running without that thread.
SpawnClient ==
    /\ MainAt("spawn client")
    /\ main' = "spawn loop"
    /\ client' \in {"none", "read"}
    /\ UNCHANGED <<fifoVars, program, loopVars, connected, nbytes, recvFrame, netVars, faults>>

SpawnLoop ==
    /\ MainAt("spawn loop")
    /\ main' = "idle"
    /\ loop' \in {"none", "sleep"}
    /\ UNCHANGED <<fifoVars, program, todo, initFlag, issued, late, clientVars, netVars, faults>>

Main == MainSocket \/ MainConnect \/ MainFcntl \/ SpawnClient \/ SpawnLoop

-----------------------------------------------------------------------------
(* pthread_loop                                                             *)

LoopAt(here) == program = "running" /\ loop = here

\* The four commands that set the converter up, or the one that synchronises it.
InitRound == 4
\* Slip: one command too many.
RoundLong == IF initFlag THEN 1 ELSE InitRound + 1
Round == IF initFlag THEN 1 ELSE InitRound

\* Slip: the round starts whether or not the connection is there.
LoopWakeAnyway ==
    /\ LoopAt("sleep")
    /\ main = "idle"
    /\ issued + Round <= MaxFrames
    /\ loop' = "issue"
    /\ todo' = Round
    /\ UNCHANGED <<fifoVars, procVars, initFlag, issued, late, clientVars, netVars, faults>>

\* is_connected is looked at once for all the commands of a round.
LoopWake ==
    /\ LoopAt("sleep")
    /\ connected
    /\ issued + Round <= MaxFrames
    /\ loop' = "issue"
    /\ todo' = Round
    /\ UNCHANGED <<fifoVars, procVars, initFlag, issued, late, clientVars, netVars, faults>>

\* ll_socket_send: the frame is packed and put; nobody looks at the result.
IssueStart ==
    /\ LoopAt("issue")
    /\ PutStart(FrameLen)
    /\ loop' = "put"
    /\ UNCHANGED <<procVars, todo, initFlag, issued, late, clientVars, netVars, faults>>

IssueFinish ==
    /\ LoopAt("put")
    /\ PutFinish(Frame(issued))
    /\ issued' = issued + 1
    /\ late' = IF connected THEN late ELSE late + 1
    /\ todo' = todo - 1
    /\ loop' = IF todo = 1 THEN "sleep" ELSE "issue"
    /\ initFlag' = (initFlag \/ todo = 1)
    /\ faults' = faults \cup IF putting < FrameLen THEN {"short put"} ELSE {}
    /\ UNCHANGED <<procVars, clientVars, netVars>>

Loop == LoopWake \/ IssueStart \/ IssueFinish

-----------------------------------------------------------------------------
(* thread_client                                                            *)

ClientAt(here) == program = "running" /\ client = here

Reading == ClientAt("read") /\ connected

\* Slip: the last of the bytes read is not copied.
ReceivedShort(n) == [i \in 1 .. FrameLen |-> IF i < n THEN taken + i - 1 ELSE recvFrame[i]]
Received(n) == [i \in 1 .. FrameLen |-> IF i <= n THEN taken + i - 1 ELSE recvFrame[i]]

\* read returned n bytes.  They overwrite the first n of recv_frame and the
\* whole of it is parsed.
ReadBytes(n) ==
    /\ Reading
    /\ sock \in {"up", "fin", "reset", "broken"}
    /\ n <= arrived - taken
    /\ nbytes' = "data"
    /\ recvFrame' = Received(n)
    /\ taken' = taken + n
    /\ faults' = faults \cup IF n < FrameLen THEN {"short read"} ELSE {}
    /\ client' = "get"
    /\ UNCHANGED <<fifoVars, procVars, loopVars, connected, sock, arrived, wire>>

\* Slip: a turn that reads nothing sends nothing.
ReadNothingSkips ==
    /\ Reading
    /\ sock = "up"
    /\ arrived = taken
    /\ nbytes' = "again"
    /\ client' = "nap"
    /\ UNCHANGED <<fifoVars, procVars, loopVars, connected, recvFrame, netVars, faults>>

\* EAGAIN
ReadNothing ==
    /\ Reading
    /\ sock = "up"
    /\ arrived = taken
    /\ nbytes' = "again"
    /\ client' = "get"
    /\ UNCHANGED <<fifoVars, procVars, loopVars, connected, recvFrame, netVars, faults>>

\* Slip: is_connected stays 1 at the end of the stream as it does at an error.
ReadEofIgnored ==
    /\ Reading
    /\ sock = "down" \/ (sock = "fin" /\ arrived = taken)
    /\ nbytes' = "eof"
    /\ client' = "get"
    /\ UNCHANGED <<fifoVars, procVars, loopVars, connected, recvFrame, netVars, faults>>

\* The end of the stream: the connection is found lost.
ReadEof ==
    /\ Reading
    /\ sock = "down" \/ (sock = "fin" /\ arrived = taken)
    /\ nbytes' = "eof"
    /\ connected' = FALSE
    /\ UNCHANGED <<fifoVars, procVars, loopVars, client, recvFrame, netVars, faults>>

\* Another error is printed, is_connected stays 1.  Reporting the pending error
\* clears it.
ReadError ==
    /\ Reading
    /\ sock \in {"reset", "broken"}
    /\ nbytes' = "error"
    /\ sock' = "down"
    /\ client' = "get"
    /\ UNCHANGED <<fifoVars, procVars, loopVars, connected, recvFrame, arrived, taken, wire,
                   faults>>

\* connect is called again on the same socket.  It could only succeed on one
\* that has never been connected.
Reconnect ==
    /\ ClientAt("read")
    /\ ~connected
    /\ connected' = (sock = "fresh")
    /\ client' = IF connected' THEN "get" ELSE "nap"
    /\ UNCHANGED <<fifoVars, procVars, loopVars, nbytes, recvFrame, netVars, faults>>

\* Slip: a get of the size of another frame type.
TakeStartShort ==
    /\ ClientAt("get")
    /\ GetStart(FrameLen - 1)
    /\ client' = "take"
    /\ UNCHANGED <<procVars, loopVars, connected, nbytes, recvFrame, netVars, faults>>

\* The two steps of ring_buf_get, for one frame.
TakeStart ==
    /\ ClientAt("get")
    /\ GetStart(FrameLen)
    /\ client' = "take"
    /\ UNCHANGED <<procVars, loopVars, connected, nbytes, recvFrame, netVars, faults>>

\* Slip: sending only in a turn that read something.
AfterTakeIfRead(got) == IF got = <<>> \/ nbytes # "data" THEN "nap" ELSE "send"
AfterTake(got) == IF got = <<>> THEN "nap" ELSE "send"

TakeFinish ==
    /\ ClientAt("take")
    /\ GetFinish
    /\ client' = AfterTake(out')
    /\ UNCHANGED <<procVars, loopVars, connected, nbytes, recvFrame, netVars, faults>>

\* Slip: what was not accepted whole is sent again.
SendAgain(n) ==
    /\ ClientAt("send")
    /\ sock \in {"up", "fin"}
    /\ n <= Len(out)
    /\ Len(wire) < MaxFrames * FrameLen
    /\ wire' = wire \o SubSeq(out, 1, n)
    /\ client' = IF n = Len(out) THEN "nap" ELSE "send"
    /\ UNCHANGED <<fifoVars, procVars, loopVars, connected, nbytes, recvFrame, sock, arrived,
                   taken, faults>>

\* send: the kernel accepts the first n of the bytes, or none of them.  The
\* result is not looked at.
Send(n) ==
    /\ ClientAt("send")
    /\ sock \in {"up", "fin"}
    /\ n <= Len(out)
    /\ wire' = wire \o SubSeq(out, 1, n)
    /\ faults' = faults \cup CASE n = Len(out) -> {}
                               [] n = 0        -> {"lost frame"}
                               [] OTHER        -> {"short send"}
    /\ client' = "nap"
    /\ UNCHANGED <<fifoVars, procVars, loopVars, connected, nbytes, recvFrame, sock, arrived,
                   taken>>

\* ECONNRESET, which clears the pending error.
SendReset ==
    /\ ClientAt("send")
    /\ sock = "reset"
    /\ sock' = "down"
    /\ faults' = faults \cup {"lost frame"}
    /\ client' = "nap"
    /\ UNCHANGED <<fifoVars, procVars, loopVars, connected, nbytes, recvFrame, arrived, taken,
                   wire>>

\* EPIPE: MSG_NOSIGNAL is not given and SIGPIPE not handled.
SendKills ==
    /\ ClientAt("send")
    /\ sock \in {"down", "broken"}
    /\ program' = "killed"
    /\ UNCHANGED <<fifoVars, main, loopVars, clientVars, netVars, faults>>

Nap ==
    /\ ClientAt("nap")
    /\ client' = "read"
    /\ UNCHANGED <<fifoVars, procVars, loopVars, connected, nbytes, recvFrame, netVars, faults>>

Client ==
    \/ \E n \in 1 .. FrameLen : ReadBytes(n)
    \/ ReadNothing \/ ReadEof \/ ReadError
    \/ Reconnect
    \/ TakeStart \/ TakeFinish
    \/ \E n \in 0 .. FrameLen : Send(n)
    \/ SendReset \/ SendKills
    \/ Nap

-----------------------------------------------------------------------------
(* The peer, and the connection as the kernel knows it: "none", "fresh" (not *)
(* connected yet), "up", "fin" (the peer has closed its side), "reset" (an   *)
(* error is pending), "broken" (reset after "fin": the pending error is      *)
(* EPIPE), "down" (the error has been reported).                             *)

PeerSends(n) ==
    /\ sock = "up"
    /\ arrived + n <= MaxInbound
    /\ arrived' = arrived + n
    /\ UNCHANGED <<fifoVars, procVars, loopVars, clientVars, sock, taken, wire, faults>>

PeerCloses ==
    /\ sock = "up"
    /\ sock' = "fin"
    /\ UNCHANGED <<fifoVars, procVars, loopVars, clientVars, arrived, taken, wire, faults>>

PeerResets ==
    /\ \/ sock = "up" /\ sock' = "reset"
       \/ sock = "fin" /\ sock' = "broken"
    /\ UNCHANGED <<fifoVars, procVars, loopVars, clientVars, arrived, taken, wire, faults>>

Peer == (\E n \in 1 .. FrameLen : PeerSends(n)) \/ PeerCloses \/ PeerResets

Next == Main \/ Loop \/ Client \/ Peer

Spec == Init /\ [][Next]_vars

\* The scheduler runs every thread that can run; the peer owes nothing.
FairSpec == Spec /\ WF_vars(Main) /\ WF_vars(Loop) /\ WF_vars(Client)

-----------------------------------------------------------------------------
\* The types of main's, the threads' and the connection's state.
TypeOK ==
    /\ queue \in Seq(Nat)
    /\ Len(queue) <= Capacity
    /\ putting \in {Idle} \cup (0 .. FrameLen)
    /\ getting \in {Idle} \cup (0 .. FrameLen)
    /\ out \in Seq(Nat)
    /\ program \in {"running", "exited", "killed"}
    /\ main \in {"socket", "connect", "fcntl", "spawn client", "spawn loop", "idle"}
    /\ loop \in {"none", "sleep", "issue", "put"}
    /\ todo \in 0 .. InitRound
    /\ initFlag \in BOOLEAN
    /\ client \in {"none", "read", "get", "take", "send", "nap"}
    /\ connected \in BOOLEAN
    /\ nbytes \in {"none", "again", "data", "eof", "error"}
    /\ recvFrame \in [1 .. FrameLen -> Nat \cup {Unread}]
    /\ sock \in {"none", "fresh", "up", "fin", "reset", "broken", "down"}
    /\ arrived \in Nat
    /\ taken \in 0 .. arrived
    /\ issued \in Nat
    /\ wire \in Seq(Nat)
    /\ late \in Nat
    /\ faults \subseteq {"short put", "short read", "short send", "lost frame"}

InHand == IF client = "send" THEN out ELSE <<>>

\* Whole(s): s is made of whole frames, whichever they are.
Whole(s) ==
    /\ Len(s) % FrameLen = 0
    /\ \A k \in 0 .. (Len(s) \div FrameLen) - 1 :
           LET f == SubSeq(s, (k * FrameLen) + 1, (k + 1) * FrameLen)
           IN f = Frame(f[1] \div FrameLen)

\* Until a put is cut short by a full ring, the ring holds whole frames and a
\* get takes a whole frame or nothing, whenever it comes during a put.
WholeFrames ==
    "short put" \notin faults =>
        /\ Whole(queue)
        /\ getting \in {Idle, 0, FrameLen}

\* The peer can tell the frames apart until a put or a send has been cut short:
\* a frame may be missing, none is torn.
Framed ==
    faults \cap {"short put", "short send"} = {} => Whole(wire)

\* Nothing disappears unnoticed: as long as every put was whole and every send
\* accepted, each byte issued is on the wire, in hand or in the ring, in order.
\* A sync then follows all of the set-up commands.
NoLoss ==
    faults \cap {"short put", "short send", "lost frame"} = {} =>
        wire \o InHand \o queue = [i \in 1 .. issued * FrameLen |-> i - 1]

\* Whatever goes wrong, no byte is sent twice or before an older one.
InOrder == \A i, j \in 1 .. Len(wire) : i < j => wire[i] < wire[j]

\* What is parsed is the frame the peer sent, until a read returns less than a
\* frame; from then on messages mix two frames.
ParsedWhole ==
    "short read" \notin faults /\ taken > 0 =>
        /\ taken % FrameLen = 0
        /\ recvFrame = Frame((taken \div FrameLen) - 1)

\* is_connected is read by one thread while the other one clears it: at most one
\* round of commands is put into the ring of a connection known to be lost.
LateCommands == late <= InitRound

\* SIGPIPE can end the program only in the turn whose read reported the reset,
\* or when a reset crossed the peer's close.
SigpipeWindow == program = "killed" => nbytes = "error" \/ sock = "broken"

-----------------------------------------------------------------------------
InRing(b) == \E i \in 1 .. Len(queue) : queue[i] = b

Ended == program # "running"

\* Every byte put into the ring leaves it for the wire, unless the connection
\* is lost, the program ends, or thread_client was never created.
Drained ==
    \A b \in 0 .. (MaxFrames * FrameLen) - 1 :
        InRing(b) /\ client # "none" ~> ~InRing(b) \/ ~connected \/ Ended

\* A connection the peer has closed or reset is found lost.
LossNoticed ==
    sock \in {"fin", "reset", "broken", "down"} /\ client # "none" ~> ~connected \/ Ended

\* "retry to connect sever!": once lost, the connection is made again.
Reconnects == client = "nap" /\ ~connected ~> connected
=============================================================================
