-------------------------------- MODULE DevCan --------------------------------
(***************************************************************************)
(* dev_can.c, and open_can_socket of can_custom_lib.c: a client whose      *)
(* receive thread queues frames that callers take from the queue.          *)
(*                                                                         *)
(* Actors: the application, which opens and closes the client; Callers,    *)
(* the threads that use it meanwhile; one receive thread per client ever   *)
(* opened, for it never ends.  The application keeps the usual contract:   *)
(* it closes when no call is under way, and its pointer is NULL whenever   *)
(* it has no client.  A step that uses NULL or a client that was freed     *)
(* sets wild, as does a signal that kills the program, and behaviours end. *)
(* The byte that read_can_frame reads beyond a block is any byte: what the *)
(* heap has there.                                                         *)
(*                                                                         *)
(* A frame is the stretch of the stream that its read returned.  Nothing   *)
(* looks at its bytes before read_can_frame, so that is where they are     *)
(* chosen.  The lists are sequences, as LinkedList implements them;        *)
(* nothing in the repository puts a frame into frame_send_list, which is   *)
(* therefore left out.                                                     *)
(***************************************************************************)
EXTENDS Integers, Sequences, FiniteSets

CONSTANTS
    Callers,     \* threads that read, get and write frames
    NoOne,       \* the holder of a free mutex
    FrameLen,    \* sizeof(socket_frame_t)
    Frames,      \* samples of received frames, as 13 bytes
    Strays,      \* samples of the byte behind a block of memory
    MaxOpens,    \* bound: calls of open_client
    MaxBytes,    \* bound: bytes received on a connection
    MaxLacks,    \* bound: failures of either allocation of an insertion
    MaxWrites,   \* bound: frames written with a client
    Patient      \* whether sleep(1) is long enough for what the thread has begun

Opens == 1 .. MaxOpens
Fds == 0 .. MaxOpens - 1
Frame == [from : 1 .. MaxBytes, upto : 1 .. MaxBytes, conn : Opens]

\* The fields of a Client_t that the code uses.
Clients ==
    [fd : Fds, list : Seq(Frame), frame_cnt : Nat, frame_sem : Nat, snd_frame_cnt : Nat,
     recv_mutex : {NoOne} \cup Callers \cup Opens, send_mutex : {NoOne} \cup Callers]

ASSUME DevCanAssumption ==
    /\ NoOne \notin Callers \cup Opens \cup Clients
    /\ Callers \cap Opens = {}
    /\ {FrameLen, MaxOpens} \subseteq Nat \ {0}
    /\ {MaxBytes, MaxLacks, MaxWrites} \subseteq Nat
    /\ Frames \subseteq [1 .. 13 -> 0 .. 255]
    /\ Strays \subseteq 0 .. 255
    /\ Patient \in BOOLEAN

VARIABLES
    client,      \* the Client_t, NoOne for NULL
    opens,       \* calls of open_client so far; the last one made client
    closing,     \* whether close_can has closed the socket
    files,       \* which connection a file descriptor names, 0 for none
    rcv,         \* the receive threads, by the call that created them
    caller,      \* where each caller is, and its copy of snd_frame_cnt
    blocks,      \* blocks of memory allocated and not freed
    wild,        \* who has used NULL or a freed client, or "signal"; "no" before
    pos,         \* history: bytes read from the client's connection
    taken,       \* history: frames taken by read_can_frame
    handed,      \* history: the bytes of the last of them, as they came and as handed out
    lost,        \* history: frames for which memory ran out, at either allocation
    leaked,      \* history: how often list_node_new failed, for any client
    written,     \* history: frames written
    failed       \* history: how often open_client failed, for the stages in Costly

history == <<pos, taken, handed, lost, leaked, written, failed>>
appVars == <<opens, closing, files>>
vars == <<client, appVars, rcv, caller, blocks, wild, history>>

OpenStages == {"malloc", "recv_list", "send_list", "sem", "socket", "connect", "thread"}
Costly == {"send_list", "connect", "thread"}

\* A Client_t after open_client.
NewClient(fd) ==
    [fd |-> fd, list |-> <<>>, frame_cnt |-> 0, frame_sem |-> 0,
     snd_frame_cnt |-> 0, recv_mutex |-> NoOne, send_mutex |-> NoOne]

NoFrame == [from |-> 1, upto |-> 0, conn |-> 0]
NothingHanded == [came |-> NoOne, given |-> NoOne]
NoThread == [at |-> "none", fd |-> 0, conn |-> 0, frame |-> NoFrame]

Init ==
    /\ client = NoOne
    /\ opens = 0
    /\ closing = FALSE
    /\ files = [fd \in Fds |-> 0]
    /\ rcv = [g \in Opens |-> NoThread]
    /\ caller = [t \in Callers |-> [at |-> "idle", copy |-> 0]]
    /\ blocks = 0
    /\ wild = "no"
    /\ pos = 0
    /\ taken = <<>>
    /\ handed = NothingHanded
    /\ lost = [frame |-> {}, node |-> {}]
    /\ leaked = 0
    /\ written = 0
    /\ failed = [s \in Costly |-> 0]

-----------------------------------------------------------------------------
\* socket() returns the lowest number that is free.
LowestFd == CHOOSE fd \in Fds : files[fd] = 0 /\ \A n \in 0 .. fd - 1 : files[n] # 0
Connected == [files EXCEPT ![LowestFd] = opens + 1]

\* Inside insert_can_frame_recv_list.
Inserting(g) == rcv[g].at \in {"count", "lock", "leave", "post"}
UsesClient(g) == rcv[g].at = "start" \/ Inserting(g)

\* open_client up to its return.  The thread it creates starts in its own time.  (A
\* thread that close_can caught using the client goes wrong in its next step: to open
\* another client first changes nothing, and is left out.)
OpenClient ==
    /\ client = NoOne
    /\ ~\E g \in Opens : UsesClient(g)
    /\ opens < MaxOpens
    /\ opens' = opens + 1
    /\ files' = Connected
    /\ client' = NewClient(LowestFd)
    /\ blocks' = blocks + 3
    /\ rcv' = [rcv EXCEPT ![opens + 1].at = "start"]
    /\ pos' = 0
    /\ taken' = <<>>
    /\ lost' = [frame |-> {}, node |-> {}]
    /\ written' = 0
    /\ UNCHANGED <<closing, caller, wild, handed, leaked, failed>>

\* What the error paths forget: the first list when there is no second one, and
\* the socket once open_can_socket has made it.
BlocksLeft(stage) == IF stage = "send_list" THEN 1 ELSE 0
SocketLeft(stage) == stage \in {"connect", "thread"}

OpenFails(stage) ==
    /\ client = NoOne
    /\ opens < MaxOpens
    /\ opens' = opens + 1
    /\ files' = IF SocketLeft(stage) THEN Connected ELSE files
    /\ blocks' = blocks + BlocksLeft(stage)
    /\ failed' = [s \in Costly |-> IF s = stage THEN failed[s] + 1 ELSE failed[s]]
    /\ UNCHANGED <<client, closing, rcv, caller, wild, pos, taken, handed, lost, leaked, written>>

Idle(t) == caller[t].at = "idle"

\* close_can up to its sleep.
CloseSocket ==
    /\ client # NoOne
    /\ ~closing
    /\ \A t \in Callers : Idle(t)
    /\ closing' = TRUE
    /\ files' = [files EXCEPT ![client.fd] = 0]
    /\ UNCHANGED <<client, opens, rcv, caller, blocks, wild, history>>

\* close_can after its sleep, with free_can.
CloseFree ==
    /\ closing
    /\ Patient => ~UsesClient(opens)
    /\ closing' = FALSE
    /\ client' = NoOne
    /\ blocks' = blocks - 3 - 2 * Len(client.list)
    /\ UNCHANGED <<opens, files, rcv, caller, wild, history>>

Application == OpenClient \/ (\E s \in OpenStages : OpenFails(s)) \/ CloseSocket \/ CloseFree

-----------------------------------------------------------------------------
\* thread_can_frame_rcv, with insert_can_frame_recv_list.
Alive(g) == client # NoOne /\ g = opens
At(g, place) == rcv[g].at = place
Goes(g, place) == rcv' = [rcv EXCEPT ![g].at = place]

Start(g) ==
    /\ At(g, "start") /\ Alive(g)
    /\ rcv' = [rcv EXCEPT ![g].at = "read", ![g].fd = client.fd]
    /\ UNCHANGED <<client, appVars, caller, blocks, wild, history>>

\* read() looks the number up when it is called and keeps the connection it found.
ReadCall(g) ==
    /\ At(g, "read")
    /\ files[rcv[g].fd] # 0
    /\ rcv' = [rcv EXCEPT ![g].at = "blocked", ![g].conn = files[rcv[g].fd]]
    /\ UNCHANGED <<client, appVars, caller, blocks, wild, history>>

\* The end of the stream, an error, or a number that names nothing: try again.
ReadNothing(g) ==
    /\ \/ At(g, "blocked")
       \/ At(g, "read") /\ files[rcv[g].fd] = 0
    /\ rcv' = [rcv EXCEPT ![g].at = "read", ![g].conn = 0]
    /\ UNCHANGED <<client, appVars, caller, blocks, wild, history>>

\* Slip: the end of the stream counts as a frame.
ReadLengthsWithEnd == 0 .. FrameLen
ReadLengths == 1 .. FrameLen

\* Whatever read returns is taken for a frame.  On an earlier client's connection
\* nobody numbers the bytes.
ReadBytes(g) ==
    /\ At(g, "blocked")
    /\ \E n \in ReadLengths, c \in {rcv[g].conn} :
        LET before == IF c = opens THEN pos ELSE 0
        IN /\ before + n <= MaxBytes
           /\ pos' = IF c = opens THEN pos + n ELSE pos
           /\ rcv' = [rcv EXCEPT ![g].at = "count", ![g].conn = 0,
                        ![g].frame = [from |-> before + 1, upto |-> before + n, conn |-> c]]
    /\ UNCHANGED <<client, appVars, caller, blocks, wild, taken, handed, lost, leaked, written,
                   failed>>

\* rcv_frame_cnt, then malloc_can_frame, which may fail.
FrameNew(g) ==
    /\ At(g, "count") /\ Alive(g)
    /\ \/ Goes(g, "lock") /\ blocks' = blocks + 1 /\ UNCHANGED lost
       \/ /\ rcv' = [rcv EXCEPT ![g].at = "read", ![g].frame = NoFrame]
          /\ Cardinality(lost.frame) < MaxLacks
          /\ lost' = [lost EXCEPT !.frame = @ \cup {rcv[g].frame}]
          /\ UNCHANGED blocks
    /\ UNCHANGED <<client, appVars, caller, wild, pos, taken, handed, leaked, written, failed>>

\* Slip: the newest frame first.
PushedFront(list, frame) == <<frame>> \o list
Pushed(list, frame) == Append(list, frame)

\* list_node_new may fail; the frame is counted and announced all the same.
Insert(g) ==
    /\ At(g, "lock") /\ Alive(g)
    /\ client.recv_mutex = NoOne
    /\ \E queued \in BOOLEAN :
        /\ queued \/ leaked < MaxLacks
        /\ client' = [client EXCEPT
                        !.recv_mutex = g,
                        !.list = IF queued THEN Pushed(@, rcv[g].frame) ELSE @,
                        !.frame_cnt = @ + 1]
        /\ blocks' = IF queued THEN blocks + 1 ELSE blocks
        /\ lost' = IF queued THEN lost ELSE [lost EXCEPT !.node = @ \cup {rcv[g].frame}]
        /\ leaked' = IF queued THEN leaked ELSE leaked + 1
    /\ rcv' = [rcv EXCEPT ![g].at = "leave", ![g].frame = NoFrame]
    /\ UNCHANGED <<appVars, caller, wild, pos, taken, handed, written, failed>>

InsertLeave(g) ==
    /\ At(g, "leave") /\ Alive(g)
    /\ client' = [client EXCEPT !.recv_mutex = NoOne]
    /\ Goes(g, "post")
    /\ UNCHANGED <<appVars, caller, blocks, wild, history>>

Post(g) ==
    /\ At(g, "post") /\ Alive(g)
    /\ client' = [client EXCEPT !.frame_sem = @ + 1]
    /\ Goes(g, "read")
    /\ UNCHANGED <<appVars, caller, blocks, wild, history>>

\* The thread goes on when its client has been freed.
UseFreed(g) ==
    /\ UsesClient(g)
    /\ ~Alive(g)
    /\ wild' = "receiver"
    /\ UNCHANGED <<client, appVars, rcv, caller, blocks, history>>

Receiver(g) ==
    \/ Start(g) \/ ReadCall(g) \/ ReadNothing(g) \/ ReadBytes(g)
    \/ FrameNew(g) \/ Insert(g) \/ InsertLeave(g) \/ Post(g) \/ UseFreed(g)

-----------------------------------------------------------------------------
\* The functions that return when client is NULL.
NullChecked == {"get", "read"}

CallWithNull(function) ==
    /\ client = NoOne
    /\ wild' = IF function \in NullChecked THEN wild ELSE function
    /\ UNCHANGED <<client, appVars, rcv, caller, blocks, history>>

CallerAt(t, place) == caller[t].at = place
CallerGoes(t, place) == caller' = [caller EXCEPT ![t].at = place]

\* A caller enters a function with a client that is there.
Call(t) ==
    /\ Idle(t)
    /\ client # NoOne
    /\ ~closing
    /\ \E place \in {"read", "get"} : CallerGoes(t, place)
    /\ UNCHANGED <<client, appVars, rcv, blocks, wild, history>>

\* Slip: frame_cnt is taken for what its comment says it is.
FramesCounted == client.frame_cnt > 0
FramesWait == client.list # <<>>

\* Slip: a return that forgets the mutex, as get_send_frame has one.
EmptyReturns == "idle"
WhenEmpty == "leave"

\* read_can_frame up to its look at len.
ReadEnter(t) ==
    /\ CallerAt(t, "read")
    /\ client.recv_mutex = NoOne
    /\ client' = [client EXCEPT !.recv_mutex = t]
    /\ CallerGoes(t, IF FramesWait THEN "pop" ELSE WhenEmpty)
    /\ UNCHANGED <<appVars, rcv, blocks, wild, history>>

\* Slip: the node is not freed.
FrameFreed == 1
FrameAndNodeFreed == 2

\* What insert_can_frame_recv_list keeps of a frame (head, can_id with its low
\* byte first, data): a can_frame_t, with the flags and the unused bits of the
\* identifier cleared ...
Extended(f) == f[5] >= 128
MaskedId(f) ==
    IF Extended(f) THEN <<f[2], f[3], f[4], f[5] % 32>> ELSE <<f[2], f[3] % 8, 0, 0>>
Data(f) == SubSeq(f, 6, 13)

\* ... which read_can_frame takes for a socket_frame_t: it starts with the head, and
\* its last byte lies behind the block.
ReadBack(f) ==
    LET block == MaskedId(f) \o Data(f)
    IN [head |-> block[1], can_id |-> SubSeq(block, 2, 5), known |-> SubSeq(block, 6, 12)]

\* The frame as it came over the socket, and as the caller finds it in frame_out.
Received(f) == [head |-> f[1], can_id |-> SubSeq(f, 2, 5), data |-> Data(f)]
HandedOut(f, stray) ==
    [head |-> ReadBack(f).head, can_id |-> ReadBack(f).can_id,
     data |-> ReadBack(f).known \o <<stray>>]

\* A frame is copied out and freed, and so is its node; a list that proved empty after
\* all would be left with the mutex held.
ReadPop(t) ==
    /\ CallerAt(t, "pop")
    /\ client.list # <<>>
    /\ client' = [client EXCEPT !.list = Tail(@)]
    /\ taken' = Append(taken, Head(client.list))
    /\ \E f \in Frames, stray \in Strays :
           handed' = [came |-> Received(f), given |-> HandedOut(f, stray)]
    /\ blocks' = blocks - FrameAndNodeFreed
    /\ CallerGoes(t, "leave")
    /\ UNCHANGED <<appVars, rcv, wild, pos, lost, leaked, written, failed>>

ReadLeave(t) ==
    /\ CallerAt(t, "leave")
    /\ client' = [client EXCEPT !.recv_mutex = NoOne]
    /\ CallerGoes(t, "idle")
    /\ UNCHANGED <<appVars, rcv, blocks, wild, history>>

\* get_send_frame up to its look at the length of the other list.
GetEnter(t) ==
    /\ CallerAt(t, "get")
    /\ client.send_mutex = NoOne
    /\ client' = [client EXCEPT !.send_mutex = t]
    /\ CallerGoes(t, IF client.list = <<>> THEN "unlock" ELSE "getpop")
    /\ UNCHANGED <<appVars, rcv, blocks, wild, history>>

GetLeave(t) ==
    /\ CallerAt(t, "unlock")
    /\ client' = [client EXCEPT !.send_mutex = NoOne]
    /\ CallerGoes(t, "idle")
    /\ UNCHANGED <<appVars, rcv, blocks, wild, history>>

\* Nothing to pop from frame_send_list: the return leaves the mutex locked.
GetPop(t) ==
    /\ CallerAt(t, "getpop")
    /\ CallerGoes(t, "idle")
    /\ UNCHANGED <<client, appVars, rcv, blocks, wild, history>>

\* Slip: a write that failed is counted.
CountedAnyway(ok) == "load"
CountedIfWritten(ok) == IF ok THEN "load" ELSE "idle"

\* write_can_frame.  A write that fails sleeps and returns -2.  What it writes, the
\* caller's frame with its identifier made an extended one, is not modelled.
Write(t) ==
    /\ Idle(t)
    /\ client # NoOne
    /\ ~closing
    /\ written < MaxWrites
    /\ \E ok \in BOOLEAN :
        /\ CallerGoes(t, CountedIfWritten(ok))
        /\ written' = IF ok THEN written + 1 ELSE written
    /\ UNCHANGED <<client, appVars, rcv, blocks, wild, pos, taken, handed, lost, leaked, failed>>

\* The peer is gone, and nobody ignores SIGPIPE.
WriteKills(t) ==
    /\ Idle(t)
    /\ client # NoOne
    /\ ~closing
    /\ wild' = "signal"
    /\ UNCHANGED <<client, appVars, rcv, caller, blocks, history>>

\* snd_frame_cnt++ without a lock: an add to memory loads and stores.
Load(t) ==
    /\ CallerAt(t, "load")
    /\ caller' = [caller EXCEPT ![t] = [at |-> "store", copy |-> client.snd_frame_cnt]]
    /\ UNCHANGED <<client, appVars, rcv, blocks, wild, history>>

Store(t) ==
    /\ CallerAt(t, "store")
    /\ client' = [client EXCEPT !.snd_frame_cnt = caller[t].copy + 1]
    /\ caller' = [caller EXCEPT ![t] = [at |-> "idle", copy |-> 0]]
    /\ UNCHANGED <<appVars, rcv, blocks, wild, history>>

\* The steps inside a call that wait for nobody.
InCall(t) == ReadPop(t) \/ ReadLeave(t) \/ GetPop(t) \/ GetLeave(t) \/ Load(t) \/ Store(t)

Caller(t) == Call(t) \/ Write(t) \/ ReadEnter(t) \/ GetEnter(t) \/ InCall(t)

Next ==
    /\ wild = "no"
    /\ \/ Application
       \/ \E g \in Opens : Receiver(g)
       \/ \E t \in Callers : Caller(t)
       \/ \E t \in Callers : WriteKills(t)
       \/ \E f \in {"get", "read", "write"} : CallWithNull(f)

\* The thread of a step that waits for nobody runs on.
Spec ==
    /\ Init
    /\ [][Next]_vars
    /\ \A t \in Callers : WF_vars(wild = "no" /\ InCall(t))
    /\ \A g \in Opens : WF_vars(wild = "no" /\ (FrameNew(g) \/ InsertLeave(g) \/ Post(g)))

-----------------------------------------------------------------------------
\* The types of the client, of the threads and of the histories; a frame is never
\* empty, and nobody has freed more than there was.
TypeOK ==
    /\ client = NoOne \/ client \in Clients
    /\ opens \in 0 .. MaxOpens
    /\ closing \in BOOLEAN
    /\ files \in [Fds -> {0} \cup Opens]
    /\ \A g \in Opens : /\ rcv[g].at \in {"none", "start", "read", "blocked", "count", "lock",
                                          "leave", "post"}
                        /\ rcv[g].frame \in Frame \cup {NoFrame}
                        /\ At(g, "count") => rcv[g].frame \in Frame
    /\ \A t \in Callers : caller[t].at \in {"idle", "read", "pop", "leave", "get", "getpop",
                                            "unlock", "load", "store"}
    /\ blocks \in Nat
    /\ wild \in {"no", "get", "read", "write", "receiver", "signal"}

Held == {rcv[g].frame : g \in Opens} \ {NoFrame}
Bytes(frame) == frame.from .. frame.upto
Whole(frame) == frame.upto - frame.from + 1 = FrameLen

\* Callers take the frames in the order in which they came, each once, whichever
\* caller asks; a byte received is in a frame that was taken, waits, is in the
\* receive thread's hands or was lost to a lack of memory, in one of them only.
\* Frames are whole until a read was short.
Delivered ==
    client # NoOne =>
        LET queue == taken \o client.list
            others == lost.frame \cup lost.node \cup Held
            mine == {f \in others : f.conn = opens}
            inQueue == {queue[i] : i \in DOMAIN queue}
        IN /\ \A i, j \in DOMAIN queue : i < j => queue[i].upto < queue[j].from
           /\ inQueue \cap mine = {}
           /\ \A b \in 1 .. pos :
                 Cardinality({f \in inQueue \cup mine : b \in Bytes(f)}) = 1
           /\ \A f \in inQueue : f.from % FrameLen = 1 % FrameLen \/
                 (\E e \in inQueue \cup mine : e.from < f.from /\ ~Whole(e))

\* No frame waits that the semaphore has not announced, but for the one that the
\* receive thread is about to.  snd_frame_cnt may miss frames when calls of
\* write_can_frame meet, but counts none that was not written, and some.
Counted ==
    client # NoOne =>
        /\ Len(client.list)
             <= client.frame_sem + (IF rcv[opens].at \in {"leave", "post"} THEN 1 ELSE 0)
        /\ client.snd_frame_cnt <= written
        /\ (written > 0 /\ \A t \in Callers : caller[t].at \notin {"load", "store"})
             => client.snd_frame_cnt > 0

\* All memory can be reached through the client or is in the receive thread's hands,
\* but for a list per open_client that had no second one, and a frame per insertion
\* that had no node.  All sockets are the client's, but for one per open_client that
\* could not connect or had no thread: retrying open_client uses up descriptors.
Accounted ==
    /\ blocks = (IF client = NoOne THEN 0 ELSE 3 + 2 * Len(client.list))
                + Cardinality({g \in Opens : At(g, "lock")})
                + failed["send_list"] + leaked
    /\ Cardinality({fd \in Fds : files[fd] # 0})
         = (IF client # NoOne /\ ~closing THEN 1 ELSE 0) + failed["connect"] + failed["thread"]

Inside(t, places) == caller[t].at \in places
Abandoned == client # NoOne /\ \E t \in Callers :
                 client.send_mutex = t /\ ~Inside(t, {"getpop", "unlock"})

\* read_can_frame never meets the empty list that would make it return with its
\* mutex held: what it saw of the list stays true.  Whoever holds the receive list's
\* mutex is between taking and releasing it.  The other mutex can be left locked, by
\* a get_send_frame that found frames in the receive list, so not before there were any.
Locking ==
    client # NoOne =>
        /\ \A t \in Callers : CallerAt(t, "pop") => client.list # <<>>
        /\ \A t \in Callers : client.recv_mutex = t <=> Inside(t, {"pop", "leave"})
        /\ \A g \in Opens : client.recv_mutex = g <=> (At(g, "leave") /\ g = opens)
        /\ Abandoned => taken \o client.list # <<>>

\* A mutex of get_send_frame, once left locked, stays so for as long as the client lives.
StaysLocked == [][Abandoned /\ client' # NoOne => Abandoned']_vars

\* However callers, the receive thread and a lack of memory meet, the mutex of the
\* receive list is released again; the other one, once left locked, stays so for as
\* long as the client lives, and nobody returns from get_send_frame any more.
Unlocking ==
    /\ (client # NoOne /\ client.recv_mutex # NoOne)
         ~> (client = NoOne \/ client.recv_mutex = NoOne \/ wild # "no")
    /\ StaysLocked

\* close_can has freed the receive thread, as its comment says, so that nobody uses
\* the client afterwards.
ReceiverFreed == wild # "receiver"

\* The number of a received identifier, without its flags, by its bits; and what tells
\* two frames apart but for heads and flags.
IdNumber(f) ==
    (f[2] + 256 * f[3] + 65536 * f[4] + 16777216 * (f[5] % 128))
        % (IF Extended(f) THEN 2 ^ 29 ELSE 2 ^ 11)

Told(f, g) == IdNumber(f) # IdNumber(g) \/ SubSeq(f, 6, 13) # SubSeq(g, 6, 13)

\* "read can frame from recive msg list", into "can frame out": the frame that
\* read_can_frame hands out is the one received, and by the comment of frame_cnt,
\* "CAN recive msg not deal frame count", it is no longer counted there.
ReadDeals ==
    [][Len(taken') > Len(taken) =>
           /\ handed'.given = handed'.came
           /\ client'.frame_cnt = client.frame_cnt - 1]_vars
=============================================================================
