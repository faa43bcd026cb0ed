---------------------------- MODULE DevCanProofs ----------------------------
(***************************************************************************)
(* The client of dev_can.c for every number of callers, of clients opened  *)
(* and of bytes received: its mutexes, its counters, the memory and the    *)
(* sockets it uses, and the frames on their way from the socket to the     *)
(* callers, however they and the receive threads interleave.               *)
(***************************************************************************)
EXTENDS DevCan, FiniteSetTheorems, SequenceTheorems, WellFoundedInduction, TLAPS

-----------------------------------------------------------------------------
(* The inductive invariant.                                                 *)

ThreadPlaces == {"none", "start", "read", "blocked", "count", "lock", "leave", "post"}
CallerPlaces ==
    {"idle", "read", "pop", "leave", "get", "getpop", "unlock", "load", "store"}

Thread == [at : ThreadPlaces, fd : Fds, conn : {0} \cup Opens, frame : Frame \cup {NoFrame}]

Typed ==
    /\ client \in Clients \cup {NoOne}
    /\ opens \in 0 .. MaxOpens
    /\ closing \in BOOLEAN
    /\ files \in [Fds -> {0} \cup Opens]
    /\ rcv \in [Opens -> Thread]
    /\ caller \in [Callers -> [at : CallerPlaces, copy : Nat]]
    /\ blocks \in Int
    /\ wild \in {"no", "get", "read", "write", "receiver", "signal"}
    /\ pos \in 0 .. MaxBytes
    /\ taken \in Seq(Frame)
    /\ lost \in [frame : SUBSET Frame, node : SUBSET Frame]
    /\ leaked \in Nat /\ written \in Nat /\ failed \in [Costly -> Nat]

\* Where the threads are, and which connections they and the descriptors know: the
\* receive thread of the client there is reads that client's connection, until it is
\* closed; threads of earlier clients may be anywhere but where they use a client.
Placed ==
    /\ \A g \in Opens : g > opens => rcv[g] = NoThread
    /\ \A g \in Opens : rcv[g].conn <= opens /\ rcv[g].frame.conn <= opens
    /\ \A g \in Opens : rcv[g].at \in {"count", "lock"} <=> rcv[g].frame # NoFrame
    /\ \A g \in Opens : At(g, "blocked") => rcv[g].conn # 0
    /\ \A fd \in Fds : files[fd] <= opens
    /\ closing \/ client = NoOne => \A t \in Callers : Idle(t)
    /\ closing => client # NoOne
    /\ client # NoOne =>
           /\ opens \in Opens
           /\ files[client.fd] = IF closing THEN 0 ELSE opens
           /\ rcv[opens].conn \in {0, opens} /\ rcv[opens].frame.conn \in {0, opens}
           /\ rcv[opens].at \notin {"none", "start"} => rcv[opens].fd = client.fd

\* All frames that came through the receive list of this client.
Queue == taken \o client.list

\* A caller in get_send_frame that saw a frame, or left the mutex locked having seen one.
SawFrame(t) ==
    CallerAt(t, "getpop") \/ (client.send_mutex = t /\ ~Inside(t, {"getpop", "unlock"}))

Locks ==
    client # NoOne =>
        /\ \A t \in Callers : CallerAt(t, "pop") => client.list # <<>>
        /\ \A t \in Callers : client.recv_mutex = t <=> Inside(t, {"pop", "leave"})
        /\ \A g \in Opens : client.recv_mutex = g <=> (At(g, "leave") /\ g = opens)
        /\ \A t \in Callers : Inside(t, {"getpop", "unlock"}) => client.send_mutex = t
        /\ \A t \in Callers : SawFrame(t) => Queue # <<>>

\* The callers between the write and the store of snd_frame_cnt.
Writing == {t \in Callers : caller[t].at \in {"load", "store"}}

Tally ==
    client # NoOne =>
        /\ IsFiniteSet(lost.node)
        /\ client.frame_cnt = Len(Queue) + Cardinality(lost.node)
        /\ client.frame_sem
             = client.frame_cnt - (IF rcv[opens].at \in {"leave", "post"} THEN 1 ELSE 0)
        /\ IsFiniteSet(Writing)
        /\ client.snd_frame_cnt + Cardinality(Writing) <= written
        /\ \A t \in Callers :
               CallerAt(t, "store") => caller[t].copy + Cardinality(Writing) <= written
        /\ written > 0 => Writing # {} \/ client.snd_frame_cnt > 0

Books == Accounted /\ Cardinality({fd \in Fds : files[fd] # 0}) <= opens

\* The frames of this client's connection.
InQueue == {Queue[i] : i \in DOMAIN Queue}
Mine == {f \in lost.frame \cup lost.node \cup Held : f.conn = opens}
All == InQueue \cup Mine
Apart(e, f) == e.upto < f.from \/ f.upto < e.from
Aligned(from) == from % FrameLen = 1 % FrameLen


\* Frames that lie apart and fill the first bytes of a stream; while all before them are
\* whole, they start where frames start.
Filled(frames, upto) ==
    /\ \A f \in frames : f.from <= f.upto /\ f.upto <= upto
    /\ \A e, f \in frames : e = f \/ Apart(e, f)
    /\ \A b \in 1 .. upto : \E f \in frames : b \in Bytes(f)
    /\ \A f \in frames : Aligned(f.from) \/ \E e \in frames : e.from < f.from /\ ~Whole(e)
    /\ upto % FrameLen = 0 \/ \E e \in frames : ~Whole(e)

\* The queue is in the order of the stream; a frame is in one place; the one in the
\* receive thread's hands comes after the queue.
InPlace ==
    /\ \A i, j \in DOMAIN Queue : i < j => Queue[i].upto < Queue[j].from
    /\ \A f \in InQueue \cup lost.frame \cup lost.node : f.conn = opens
    /\ InQueue \cap (lost.frame \cup lost.node) = {}
    /\ \A g \in Opens : rcv[g].frame \notin InQueue \cup lost.frame \cup lost.node
    /\ \A g, h \in Opens :
           rcv[g].frame = rcv[h].frame /\ rcv[g].frame.conn = opens => g = h
    /\ rcv[opens].frame # NoFrame =>
           \A i \in DOMAIN Queue : Queue[i].upto < rcv[opens].frame.from

Stream == client # NoOne => Filled(All, pos) /\ InPlace

IInv == Typed /\ Placed /\ Locks /\ Tally /\ Books /\ Stream

-----------------------------------------------------------------------------
(* Facts that the steps share.                                              *)

LEMMA Constants ==
    /\ MaxOpens \in Nat \ {0} /\ FrameLen \in Nat \ {0} /\ MaxBytes \in Nat
    /\ Opens = 1 .. MaxOpens /\ Fds = 0 .. MaxOpens - 1 /\ 0 \in Fds
    /\ NoOne \notin Callers /\ NoOne \notin Opens /\ NoOne \notin Clients
    /\ Callers \cap Opens = {}
    /\ NoFrame \notin Frame /\ NoFrame.conn = 0
    /\ \A f \in Frame : f.from \in Nat /\ f.upto \in Nat /\ f.conn \in Opens
    /\ NoThread \in Thread
BY DevCanAssumption DEF Opens, Fds, Frame, NoFrame, NoThread, Thread, ThreadPlaces

\* A set of natural numbers has a least element.
Smaller == {p \in Nat \X Nat : p[1] < p[2]}

LEMMA Least ==
    ASSUME NEW T, T \subseteq Nat, T # {}
    PROVE  \E x \in T : \A y \in T : x <= y
<1>1. IsWellFoundedOn(Smaller, Nat)
    BY NatLessThanWellFounded DEF OpToRel, Smaller
<1>2. PICK x \in T : \A y \in T : <<y, x>> \notin Smaller
    BY <1>1, WFMin
<1>3. ASSUME NEW y \in T
      PROVE  x <= y
    <2>1. x \in Nat /\ y \in Nat /\ <<y, x>> \notin Smaller
        BY <1>2
    <2> QED
        BY <2>1 DEF Smaller
<1> QED
    BY <1>3

\* The descriptors in use, and the threads that hold a frame with memory of its own.
Used == {fd \in Fds : files[fd] # 0}
Holding == {g \in Opens : At(g, "lock")}

InClient == IF client = NoOne THEN 0 ELSE 3 + 2 * Len(client.list)
OfClient == IF client # NoOne /\ ~closing THEN 1 ELSE 0

Memory == blocks = InClient + Cardinality(Holding) + failed["send_list"] + leaked
Sockets == /\ Cardinality(Used) = OfClient + failed["connect"] + failed["thread"]
           /\ Cardinality(Used) <= opens

LEMMA BooksAre == Books <=> Memory /\ Sockets
BY Zenon DEF Books, Accounted, Used, Holding, Memory, Sockets, InClient, OfClient

LEMMA BooksAreNext == (Books <=> Memory /\ Sockets)'
BY BooksAre, PTL

LEMMA FdsCounted ==
    /\ IsFiniteSet(Fds) /\ Cardinality(Fds) = MaxOpens
    /\ IsFiniteSet(Used) /\ Cardinality(Used) \in Nat
<1>1. Fds = 0 .. MaxOpens - 1 /\ 0 \in Int /\ MaxOpens - 1 \in Int
      /\ ~(0 > MaxOpens - 1) /\ MaxOpens - 1 - 0 + 1 = MaxOpens
    BY Constants
<1>2. IsFiniteSet(Fds) /\ Cardinality(Fds) = MaxOpens
    BY <1>1, FS_Interval
<1>3. Used \in SUBSET Fds
    BY DEF Used
<1> QED
    BY <1>2, <1>3, FS_Subset, FS_CardinalityType

\* While another client may be opened, socket() has a number to give.
LEMMA FdFree ==
    ASSUME IInv, opens < MaxOpens
    PROVE  LowestFd \in Fds /\ files[LowestFd] = 0
<1> DEFINE free == Fds \ Used
<1>1. Cardinality(Used) <= opens /\ opens \in Nat
    <2>1. opens \in Nat
        BY Constants DEF IInv, Typed
    <2> QED
        BY <2>1, BooksAre DEF IInv, Sockets
<1>2. free # {}
    <2>1. Used = Fds => Cardinality(Used) = MaxOpens
        BY FdsCounted
    <2>2. Used # Fds
        BY <1>1, <2>1, Constants
    <2> QED
        BY <2>2 DEF Used
<1>3. PICK fd \in free : \A n \in free : fd <= n
    <2>1. free \subseteq Nat
        BY Constants
    <2> QED
        BY <1>2, <2>1, Least
<1>4. fd \in Fds /\ files[fd] = 0 /\ \A n \in 0 .. fd - 1 : files[n] # 0
    <2>1. fd \in Fds /\ files[fd] = 0
        BY DEF Used
    <2>2. ASSUME NEW n \in 0 .. fd - 1
          PROVE  files[n] # 0
        <3>1. n \in Fds /\ ~(fd <= n)
            BY <2>1, Constants
        <3> QED
            BY <1>3, <3>1 DEF Used
    <2> QED
        BY <2>1, <2>2
<1> QED
    BY <1>4 DEF LowestFd

\* A thread that uses its client was created by one of the calls made.
LEMMA UsersOpened ==
    ASSUME IInv, NEW g \in Opens, rcv[g].at # "none"
    PROVE  g <= opens
<1>1. g > opens => rcv[g].at = "none"
    BY DEF IInv, Placed, NoThread
<1> QED
    BY <1>1, Constants DEF IInv, Typed

LEMMA InitIInv == Init => IInv
<1> SUFFICES ASSUME Init PROVE IInv
    OBVIOUS
<1>1. Typed
    <2>1. opens \in 0 .. MaxOpens /\ files \in [Fds -> {0} \cup Opens]
          /\ rcv \in [Opens -> Thread] /\ pos \in 0 .. MaxBytes
        BY Constants DEF Init
    <2>2. failed \in [Costly -> Nat] /\ taken \in Seq(Frame)
          /\ lost \in [frame : SUBSET Frame, node : SUBSET Frame]
          /\ caller \in [Callers -> [at : CallerPlaces, copy : Nat]]
        BY EmptySeq DEF Init, CallerPlaces
    <2>3. /\ client \in Clients \cup {NoOne} /\ blocks \in Int /\ leaked \in Nat /\ written \in Nat
          /\ wild \in {"no", "get", "read", "write", "receiver", "signal"}
        BY DEF Init
    <2>4. closing \in BOOLEAN
        BY DEF Init
    <2> QED
        BY <2>1, <2>2, <2>3, <2>4 DEF Typed
<1>2. Placed
    BY Constants DEF Init, Placed, At, Idle, NoThread, NoFrame
<1>3. Books
    <2>1. Used = {} /\ Holding = {}
        BY DEF Init, Used, Holding, At, NoThread
    <2>2. Cardinality(Used) = 0 /\ Cardinality(Holding) = 0
        BY <2>1, FS_EmptySet
    <2>3. /\ failed["send_list"] = 0 /\ failed["connect"] = 0 /\ failed["thread"] = 0
          /\ blocks = 0 /\ client = NoOne /\ leaked = 0 /\ opens = 0
        BY DEF Init, Costly
    <2> QED
        BY <2>2, <2>3, BooksAre DEF Memory, Sockets, InClient, OfClient
<1> QED
    BY <1>1, <1>2, <1>3 DEF Init, IInv, Locks, Tally, Stream

-----------------------------------------------------------------------------
(* Types.                                                                   *)

\* The steps, by who takes them.
LEMMA Steps ==
    ASSUME Next
    PROVE  /\ wild = "no"
           /\ \/ OpenClient
              \/ \E s \in OpenStages : OpenFails(s)
              \/ CloseSocket \/ CloseFree
              \/ \E g \in Opens : \/ Start(g) \/ ReadCall(g) \/ ReadNothing(g) \/ ReadBytes(g)
                                  \/ FrameNew(g) \/ Insert(g) \/ InsertLeave(g) \/ Post(g)
                                  \/ UseFreed(g)
              \/ \E t \in Callers : \/ Call(t) \/ Write(t) \/ ReadEnter(t) \/ GetEnter(t)
                                    \/ ReadPop(t) \/ ReadLeave(t) \/ GetPop(t) \/ GetLeave(t)
                                    \/ Load(t) \/ Store(t)
              \/ \E t \in Callers : WriteKills(t)
              \/ \E f \in {"get", "read", "write"} : CallWithNull(f)
BY DEF Next, Application, Receiver, Caller, InCall

\* Threads and callers keep their types when they go somewhere.
LEMMA GoesTyped ==
    ASSUME Typed, NEW g \in Opens, NEW place \in ThreadPlaces,
           NEW n \in Fds, NEW c \in {0} \cup Opens, NEW f \in Frame \cup {NoFrame}
    PROVE  /\ [rcv EXCEPT ![g].at = place] \in [Opens -> Thread]
           /\ [rcv EXCEPT ![g].at = place, ![g].fd = n] \in [Opens -> Thread]
           /\ [rcv EXCEPT ![g].at = place, ![g].conn = c] \in [Opens -> Thread]
           /\ [rcv EXCEPT ![g].at = place, ![g].frame = f] \in [Opens -> Thread]
           /\ [rcv EXCEPT ![g].at = place, ![g].conn = c, ![g].frame = f] \in [Opens -> Thread]
<1>1. ASSUME NEW r \in [Opens -> Thread]
      PROVE  /\ [r EXCEPT ![g].at = place] \in [Opens -> Thread]
             /\ [r EXCEPT ![g].fd = n] \in [Opens -> Thread]
             /\ [r EXCEPT ![g].conn = c] \in [Opens -> Thread]
             /\ [r EXCEPT ![g].frame = f] \in [Opens -> Thread]
    BY DEF Thread
<1> DEFINE there == [rcv EXCEPT ![g].at = place]
           known == [there EXCEPT ![g].conn = c]
<1>2. there \in [Opens -> Thread]
    BY <1>1 DEF Typed
<1> HIDE DEF there
<1>3. known \in [Opens -> Thread]
    BY <1>1, <1>2
<1> HIDE DEF known
<1>4. /\ [there EXCEPT ![g].fd = n] \in [Opens -> Thread]
      /\ [there EXCEPT ![g].frame = f] \in [Opens -> Thread]
      /\ [known EXCEPT ![g].frame = f] \in [Opens -> Thread]
    BY <1>1, <1>2, <1>3
<1> QED
    BY <1>2, <1>3, <1>4 DEF there, known

LEMMA CallerGoesTyped ==
    ASSUME Typed, NEW t \in Callers, NEW place \in CallerPlaces, NEW n \in Nat
    PROVE  /\ [caller EXCEPT ![t].at = place] \in [Callers -> [at : CallerPlaces, copy : Nat]]
           /\ [caller EXCEPT ![t] = [at |-> place, copy |-> n]]
                  \in [Callers -> [at : CallerPlaces, copy : Nat]]
BY DEF Typed

LEMMA ThreadTyped ==
    ASSUME Typed, NEW g \in Opens
    PROVE  /\ rcv[g].at \in ThreadPlaces /\ rcv[g].fd \in Fds
           /\ rcv[g].conn \in {0} \cup Opens /\ rcv[g].conn \in Nat
           /\ rcv[g].frame \in Frame \cup {NoFrame} /\ rcv[g].frame.conn \in Nat
           /\ rcv[g].frame = NoFrame \/ rcv[g].frame \in Frame
<1>1. rcv[g] \in Thread
    BY DEF Typed
<1> QED
    BY <1>1, Constants DEF Thread

LEMMA ClientTyped ==
    ASSUME Typed, client # NoOne
    PROVE  /\ client \in Clients
           /\ client.fd \in Fds /\ client.list \in Seq(Frame)
           /\ client.frame_cnt \in Nat /\ client.frame_sem \in Nat /\ client.snd_frame_cnt \in Nat
           /\ client.recv_mutex \in {NoOne} \cup Callers \cup Opens
           /\ client.send_mutex \in {NoOne} \cup Callers
           /\ Queue \in Seq(Frame) /\ Len(Queue) \in Nat
           /\ Len(taken) \in Nat /\ Len(client.list) \in Nat
           /\ Len(Queue) = Len(taken) + Len(client.list)
<1>1. client \in Clients
    BY DEF Typed
<1>2. client.list \in Seq(Frame) /\ taken \in Seq(Frame)
    BY <1>1 DEF Typed, Clients
<1>3. Queue \in Seq(Frame) /\ Len(Queue) = Len(taken) + Len(client.list)
    BY <1>2, ConcatProperties DEF Queue
<1> QED
    BY <1>1, <1>2, <1>3, LenProperties DEF Clients

LEMMA NewClientTyped ==
    ASSUME NEW fd \in Fds
    PROVE  NewClient(fd) \in Clients /\ NewClient(fd) # NoOne
<1>1. NewClient(fd) \in Clients
    BY EmptySeq DEF NewClient, Clients
<1> QED
    BY <1>1, Constants

LEMMA ApplicationTyped ==
    ASSUME IInv, OpenClient \/ (\E s \in OpenStages : OpenFails(s)) \/ CloseSocket \/ CloseFree
    PROVE  Typed'
<1>1. Typed /\ opens \in Nat
    BY Constants DEF IInv, Typed
<1>2. opens < MaxOpens => /\ LowestFd \in Fds /\ opens + 1 \in Opens /\ opens + 1 \in 0 .. MaxOpens
                          /\ Connected \in [Fds -> {0} \cup Opens]
    BY <1>1, FdFree, Constants DEF Typed, Connected
<1>3. CASE OpenClient
    <2>1. client' \in Clients /\ rcv' \in [Opens -> Thread]
        <3>1. "start" \in ThreadPlaces /\ 0 \in Fds /\ 0 \in {0} \cup Opens
              /\ NoFrame \in Frame \cup {NoFrame}
            BY Constants DEF ThreadPlaces
        <3> QED
            BY <1>1, <1>2, <1>3, <3>1, GoesTyped, NewClientTyped DEF OpenClient
    <2>2. taken' \in Seq(Frame) /\ lost' \in [frame : SUBSET Frame, node : SUBSET Frame]
          /\ pos' \in 0 .. MaxBytes
        BY <1>3, EmptySeq, Constants DEF OpenClient
    <2>3. opens' \in 0 .. MaxOpens /\ files' \in [Fds -> {0} \cup Opens] /\ blocks' \in Int
        BY <1>1, <1>2, <1>3 DEF OpenClient, Typed
    <2> QED
        BY <1>1, <1>3, <2>1, <2>2, <2>3 DEF OpenClient, Typed
<1>4. ASSUME NEW s \in OpenStages, OpenFails(s)
      PROVE  Typed'
    <2>1. opens' \in 0 .. MaxOpens /\ files' \in [Fds -> {0} \cup Opens] /\ blocks' \in Int
        BY <1>1, <1>2, <1>4 DEF OpenFails, BlocksLeft, Typed
    <2>2. failed' \in [Costly -> Nat]
        BY <1>1, <1>4 DEF OpenFails, Typed
    <2> QED
        BY <1>1, <1>4, <2>1, <2>2 DEF OpenFails, Typed
<1>5. CASE CloseSocket
    <2>1. client.fd \in Fds /\ files' \in [Fds -> {0} \cup Opens]
        BY <1>1, <1>5, ClientTyped DEF CloseSocket, Typed
    <2> QED
        BY <1>1, <1>5, <2>1 DEF CloseSocket, Typed, history
<1>6. CASE CloseFree
    <2>1. client # NoOne
        BY <1>6 DEF CloseFree, IInv, Placed
    <2>2. blocks' \in Int
        BY <1>1, <1>6, <2>1, ClientTyped DEF CloseFree, Typed
    <2> QED
        BY <1>1, <1>6, <2>2 DEF CloseFree, Typed, history
<1> QED
    BY <1>3, <1>4, <1>5, <1>6

\* What a read returned is a frame.
LEMMA ReadTyped ==
    ASSUME IInv, NEW g \in Opens, NEW n \in ReadLengths, NEW c, c = rcv[g].conn,
           At(g, "blocked"), NEW before, before = (IF c = opens THEN pos ELSE 0),
           before + n <= MaxBytes
    PROVE  /\ [from |-> before + 1, upto |-> before + n, conn |-> c] \in Frame
           /\ before \in Nat /\ n \in Nat /\ n > 0 /\ c \in Opens
<1>1. rcv[g] \in Thread /\ pos \in 0 .. MaxBytes
    BY DEF IInv, Typed
<1>2. c \in Opens
    BY <1>1 DEF IInv, Placed, Thread
<1>3. n \in Nat /\ n > 0 /\ before \in Nat
    BY <1>1, Constants DEF ReadLengths
<1> QED
    BY <1>2, <1>3, Constants DEF Frame

\* What an insertion does, field by field.
LEMMA InsertDoes ==
    ASSUME IInv, NEW g \in Opens, Insert(g)
    PROVE  /\ g = opens /\ client # NoOne /\ rcv[g].frame \in Frame /\ client.recv_mutex = NoOne
           /\ client' \in Clients
           /\ client'.fd = client.fd /\ client'.recv_mutex = g
           /\ client'.send_mutex = client.send_mutex
           /\ client'.frame_cnt = client.frame_cnt + 1
           /\ client'.frame_sem = client.frame_sem
           /\ client'.snd_frame_cnt = client.snd_frame_cnt
           /\ \/ /\ client'.list = Append(client.list, rcv[g].frame)
                 /\ blocks' = blocks + 1 /\ lost' = lost /\ leaked' = leaked
              \/ /\ client'.list = client.list
                 /\ blocks' = blocks /\ leaked' = leaked + 1
                 /\ lost'.node = lost.node \cup {rcv[g].frame} /\ lost'.frame = lost.frame
                 /\ lost' \in [frame : SUBSET Frame, node : SUBSET Frame]
<1>1. Typed /\ rcv[g] \in Thread
    BY DEF IInv, Typed
<1>2. g = opens /\ client # NoOne /\ client \in Clients /\ rcv[g].frame \in Frame
      /\ client.recv_mutex = NoOne
    BY <1>1, ClientTyped DEF Insert, Alive, At, Thread, IInv, Placed
<1>3. PICK queued \in BOOLEAN :
        /\ client' = [client EXCEPT
                        !.recv_mutex = g,
                        !.list = IF queued THEN Append(@, rcv[g].frame) ELSE @,
                        !.frame_cnt = @ + 1]
        /\ blocks' = IF queued THEN blocks + 1 ELSE blocks
        /\ lost' = IF queued THEN lost ELSE [lost EXCEPT !.node = @ \cup {rcv[g].frame}]
        /\ leaked' = IF queued THEN leaked ELSE leaked + 1
    BY DEF Insert, Pushed
<1> DEFINE list == IF queued THEN Append(client.list, rcv[g].frame) ELSE client.list
           locked == [client EXCEPT !.recv_mutex = g]
           longer == [locked EXCEPT !.list = list]
<1>4. list \in Seq(Frame)
    BY <1>1, <1>2, ClientTyped, AppendProperties
<1>5. client' = [longer EXCEPT !.frame_cnt = client.frame_cnt + 1]
    BY <1>2, <1>3 DEF Clients
<1> HIDE DEF list
<1>6. locked \in Clients /\ locked.recv_mutex = g /\ locked.fd = client.fd
      /\ locked.send_mutex = client.send_mutex /\ locked.frame_cnt = client.frame_cnt
      /\ locked.frame_sem = client.frame_sem /\ locked.snd_frame_cnt = client.snd_frame_cnt
    BY <1>2 DEF Clients
<1> HIDE DEF locked
<1>7. longer \in Clients /\ longer.recv_mutex = g /\ longer.fd = client.fd
      /\ longer.send_mutex = client.send_mutex /\ longer.frame_cnt = client.frame_cnt
      /\ longer.frame_sem = client.frame_sem /\ longer.snd_frame_cnt = client.snd_frame_cnt
      /\ longer.list = list
    BY <1>4, <1>6 DEF Clients
<1>8. client.frame_cnt + 1 \in Nat
    BY <1>2 DEF Clients
<1> HIDE DEF longer
<1>9. client' \in Clients /\ client'.recv_mutex = g /\ client'.fd = client.fd
      /\ client'.send_mutex = client.send_mutex /\ client'.frame_cnt = client.frame_cnt + 1
      /\ client'.frame_sem = client.frame_sem /\ client'.snd_frame_cnt = client.snd_frame_cnt
      /\ client'.list = list
    BY <1>5, <1>7, <1>8 DEF Clients
<1>10. CASE queued
    BY <1>2, <1>3, <1>9, <1>10 DEF list
<1>11. CASE ~queued
    <2>1. lost' = [lost EXCEPT !.node = @ \cup {rcv[g].frame}]
        BY <1>3, <1>11
    <2>2. lost'.node = lost.node \cup {rcv[g].frame} /\ lost'.frame = lost.frame
          /\ lost' \in [frame : SUBSET Frame, node : SUBSET Frame]
        BY <1>1, <1>2, <2>1 DEF Typed
    <2> QED
        BY <1>2, <1>3, <1>9, <1>11, <2>2 DEF list
<1> QED
    BY <1>10, <1>11

LEMMA ReceiverTyped ==
    ASSUME IInv, NEW g \in Opens, Receiver(g)
    PROVE  Typed'
<1>1. Typed /\ rcv[g] \in Thread /\ rcv[g].fd \in Fds
    BY DEF IInv, Typed, Thread
<1>2. /\ 0 \in Fds /\ 0 \in {0} \cup Opens /\ NoFrame \in Frame \cup {NoFrame}
      /\ {"start", "read", "blocked", "count", "lock", "leave", "post"} \subseteq ThreadPlaces
    BY Constants DEF ThreadPlaces
<1>3. CASE Start(g)
    <2>1. client.fd \in Fds
        BY <1>1, <1>3, ClientTyped DEF Start, Alive
    <2>2. rcv' \in [Opens -> Thread]
        BY <1>1, <1>2, <1>3, <2>1, GoesTyped DEF Start
    <2> QED
        BY <1>1, <1>3, <2>2 DEF Start, Typed, appVars, history
<1>4. CASE ReadCall(g)
    <2>1. files[rcv[g].fd] \in {0} \cup Opens
        BY <1>1 DEF Typed
    <2>2. rcv' \in [Opens -> Thread]
        BY <1>1, <1>2, <1>4, <2>1, GoesTyped DEF ReadCall
    <2> QED
        BY <1>1, <1>4, <2>2 DEF ReadCall, Typed, appVars, history
<1>5. CASE ReadNothing(g)
    <2>1. rcv' \in [Opens -> Thread]
        BY <1>1, <1>2, <1>5, GoesTyped DEF ReadNothing
    <2> QED
        BY <1>1, <1>5, <2>1 DEF ReadNothing, Typed, appVars, history
<1>6. CASE ReadBytes(g)
    <2>1. PICK n \in ReadLengths, before \in Nat :
              /\ before = (IF rcv[g].conn = opens THEN pos ELSE 0)
              /\ before + n <= MaxBytes
              /\ pos' = (IF rcv[g].conn = opens THEN pos + n ELSE pos)
              /\ rcv' = [rcv EXCEPT ![g].at = "count", ![g].conn = 0,
                           ![g].frame = [from |-> before + 1, upto |-> before + n,
                                         conn |-> rcv[g].conn]]
        <3>1. pos \in Nat
            BY <1>1, Constants DEF Typed
        <3> QED
            BY <1>6, <3>1 DEF ReadBytes
    <2>2. At(g, "blocked") /\ UNCHANGED <<client, appVars, caller, blocks, wild, taken, lost,
                                          leaked, written, failed>>
        BY <1>6 DEF ReadBytes
    <2>3. /\ [from |-> before + 1, upto |-> before + n, conn |-> rcv[g].conn] \in Frame
          /\ before \in Nat /\ n \in Nat
        BY <2>1, <2>2, ReadTyped
    <2>4. rcv' \in [Opens -> Thread]
        <3> DEFINE frame == [from |-> before + 1, upto |-> before + n, conn |-> rcv[g].conn]
        <3>1. frame \in Frame \cup {NoFrame} /\ "count" \in ThreadPlaces
            BY <1>2, <2>3
        <3>2. rcv' = [rcv EXCEPT ![g].at = "count", ![g].conn = 0, ![g].frame = frame]
            BY <2>1
        <3> HIDE DEF frame
        <3> QED
            BY <1>1, <1>2, <3>1, <3>2, GoesTyped
    <2>5. pos' \in 0 .. MaxBytes
        BY <1>1, <2>1, <2>3, Constants DEF Typed
    <2> QED
        BY <1>1, <2>2, <2>4, <2>5 DEF Typed, appVars
<1>7. CASE FrameNew(g)
    <2>1. rcv[g].frame \in Frame
        BY <1>1, <1>7 DEF FrameNew, At, Thread, IInv, Placed
    <2>2. \/ /\ rcv' = [rcv EXCEPT ![g].at = "lock"] /\ blocks' = blocks + 1 /\ lost' = lost
          \/ /\ rcv' = [rcv EXCEPT ![g].at = "read", ![g].frame = NoFrame] /\ blocks' = blocks
             /\ lost' = [lost EXCEPT !.frame = @ \cup {rcv[g].frame}]
        BY <1>7 DEF FrameNew, Goes
    <2>3. [lost EXCEPT !.frame = @ \cup {rcv[g].frame}] \in [frame : SUBSET Frame, node : SUBSET Frame]
        BY <1>1, <2>1 DEF Typed
    <2>4. lost' \in [frame : SUBSET Frame, node : SUBSET Frame]
        BY <1>1, <2>2, <2>3 DEF Typed
    <2>5. blocks' \in Int
        BY <1>1, <2>2 DEF Typed
    <2>6. /\ [rcv EXCEPT ![g].at = "lock"] \in [Opens -> Thread]
          /\ [rcv EXCEPT ![g].at = "read", ![g].frame = NoFrame] \in [Opens -> Thread]
        BY <1>1, <1>2, GoesTyped
    <2>7. rcv' \in [Opens -> Thread]
        BY <2>2, <2>6
    <2> QED
        BY <1>1, <1>7, <2>4, <2>5, <2>7 DEF FrameNew, Typed, appVars
<1>8. CASE Insert(g)
    <2>1. client' \in Clients
        BY <1>8, InsertDoes
    <2>2. rcv' \in [Opens -> Thread]
        BY <1>1, <1>2, <1>8, GoesTyped DEF Insert
    <2>3. blocks' \in Int /\ leaked' \in Nat
        BY <1>1, <1>8, InsertDoes DEF Typed
    <2>4. lost' \in [frame : SUBSET Frame, node : SUBSET Frame]
        BY <1>1, <1>8, InsertDoes DEF Typed
    <2> QED
        BY <1>1, <1>8, <2>1, <2>2, <2>3, <2>4 DEF Insert, Typed, appVars
<1>9. CASE InsertLeave(g)
    <2>1. client \in Clients
        BY <1>1, <1>9, ClientTyped DEF InsertLeave, Alive
    <2>2. client' \in Clients
        BY <1>9, <2>1 DEF InsertLeave, Clients
    <2>3. rcv' \in [Opens -> Thread]
        BY <1>1, <1>2, <1>9, GoesTyped DEF InsertLeave, Goes
    <2> QED
        BY <1>1, <1>9, <2>2, <2>3 DEF InsertLeave, Typed, appVars, history
<1>10. CASE Post(g)
    <2>1. client \in Clients
        BY <1>1, <1>10, ClientTyped DEF Post, Alive
    <2>2. client' \in Clients
        BY <1>10, <2>1 DEF Post, Clients
    <2>3. rcv' \in [Opens -> Thread]
        BY <1>1, <1>2, <1>10, GoesTyped DEF Post, Goes
    <2> QED
        BY <1>1, <1>10, <2>2, <2>3 DEF Post, Typed, appVars, history
<1>11. CASE UseFreed(g)
    BY <1>1, <1>11 DEF UseFreed, Typed, appVars, history
<1> QED
    BY <1>3, <1>4, <1>5, <1>6, <1>7, <1>8, <1>9, <1>10, <1>11 DEF Receiver

LEMMA CallerTyped ==
    ASSUME IInv, NEW t \in Callers, Caller(t)
    PROVE  Typed'
<1>1. Typed
    BY DEF IInv
<1> DEFINE Fine(c) == c \in [Callers -> [at : CallerPlaces, copy : Nat]]
<1>2. \A place \in CallerPlaces :
          /\ Fine([caller EXCEPT ![t].at = place])
          /\ \A n \in Nat : Fine([caller EXCEPT ![t] = [at |-> place, copy |-> n]])
    BY <1>1, CallerGoesTyped
<1>3. {"idle", "read", "pop", "leave", "get", "getpop", "unlock", "load", "store"}
          \subseteq CallerPlaces
    BY DEF CallerPlaces
<1>4. ~Idle(t) => client # NoOne /\ client \in Clients /\ client.snd_frame_cnt \in Nat
    BY <1>1, ClientTyped DEF IInv, Placed
<1>5. caller[t].copy \in Nat
    BY <1>1 DEF Typed
<1> HIDE DEF Fine
<1>6. CASE Call(t)
    <2>1. Fine(caller')
        BY <1>2, <1>3, <1>6 DEF Call, CallerGoes
    <2> QED
        BY <1>1, <1>6, <2>1 DEF Call, Typed, appVars, history, Fine
<1>7. CASE Write(t)
    <2>1. written' \in Nat
        BY <1>1, <1>7 DEF Write, Typed
    <2>2. Fine(caller')
        <3>1. \/ caller' = [caller EXCEPT ![t].at = "load"]
              \/ caller' = [caller EXCEPT ![t].at = "idle"]
            BY <1>7 DEF Write, CallerGoes, CountedIfWritten
        <3> QED
            BY <1>2, <1>3, <3>1
    <2> QED
        BY <1>1, <1>7, <2>1, <2>2 DEF Write, Typed, appVars, Fine
<1>8. CASE ReadEnter(t)
    <2>1. client \in Clients
        BY <1>4, <1>8 DEF ReadEnter, CallerAt, Idle
    <2>2. client' \in Clients
        BY <1>8, <2>1 DEF ReadEnter, Clients
    <2>3. Fine(caller')
        BY <1>2, <1>3, <1>8 DEF ReadEnter, CallerGoes, WhenEmpty
    <2> QED
        BY <1>1, <1>8, <2>2, <2>3 DEF ReadEnter, Typed, appVars, history, Fine
<1>9. CASE ReadPop(t)
    <2>1. client # NoOne /\ client \in Clients /\ client.list # <<>>
        BY <1>4, <1>9 DEF ReadPop, CallerAt, Idle
    <2>2. /\ Head(client.list) \in Frame /\ Tail(client.list) \in Seq(Frame)
          /\ Append(taken, Head(client.list)) \in Seq(Frame)
        BY <1>1, <2>1, ClientTyped, HeadTailProperties, AppendProperties DEF Typed
    <2>3. client' \in Clients
        BY <1>9, <2>1, <2>2 DEF ReadPop, Clients
    <2>4. Fine(caller')
        BY <1>2, <1>3, <1>9 DEF ReadPop, CallerGoes
    <2>5. blocks' \in Int
        BY <1>1, <1>9 DEF ReadPop, FrameAndNodeFreed, Typed
    <2> QED
        BY <1>1, <1>9, <2>2, <2>3, <2>4, <2>5 DEF ReadPop, Typed, appVars, Fine
<1>10. CASE ReadLeave(t)
    <2>1. client \in Clients
        BY <1>4, <1>10 DEF ReadLeave, CallerAt, Idle
    <2>2. client' \in Clients
        BY <1>10, <2>1 DEF ReadLeave, Clients
    <2>3. Fine(caller')
        BY <1>2, <1>3, <1>10 DEF ReadLeave, CallerGoes
    <2> QED
        BY <1>1, <1>10, <2>2, <2>3 DEF ReadLeave, Typed, appVars, history, Fine
<1>11. CASE GetEnter(t)
    <2>1. client \in Clients
        BY <1>4, <1>11 DEF GetEnter, CallerAt, Idle
    <2>2. client' \in Clients
        BY <1>11, <2>1 DEF GetEnter, Clients
    <2>3. Fine(caller')
        BY <1>2, <1>3, <1>11 DEF GetEnter, CallerGoes
    <2> QED
        BY <1>1, <1>11, <2>2, <2>3 DEF GetEnter, Typed, appVars, history, Fine
<1>12. CASE GetLeave(t)
    <2>1. client \in Clients
        BY <1>4, <1>12 DEF GetLeave, CallerAt, Idle
    <2>2. client' \in Clients
        BY <1>12, <2>1 DEF GetLeave, Clients
    <2>3. Fine(caller')
        BY <1>2, <1>3, <1>12 DEF GetLeave, CallerGoes
    <2> QED
        BY <1>1, <1>12, <2>2, <2>3 DEF GetLeave, Typed, appVars, history, Fine
<1>13. CASE GetPop(t)
    <2>1. Fine(caller')
        BY <1>2, <1>3, <1>13 DEF GetPop, CallerGoes
    <2> QED
        BY <1>1, <1>13, <2>1 DEF GetPop, Typed, appVars, history, Fine
<1>14. CASE Load(t)
    <2>1. client.snd_frame_cnt \in Nat
        BY <1>4, <1>14 DEF Load, CallerAt, Idle
    <2>2. Fine(caller')
        BY <1>2, <1>3, <1>14, <2>1 DEF Load
    <2> QED
        BY <1>1, <1>14, <2>2 DEF Load, Typed, appVars, history, Fine
<1>15. CASE Store(t)
    <2>1. client \in Clients
        BY <1>4, <1>15 DEF Store, CallerAt, Idle
    <2>2. client' \in Clients
        BY <1>5, <1>15, <2>1, SMTT(30) DEF Store, Clients
    <2>3. Fine(caller')
        BY <1>2, <1>3, <1>15 DEF Store
    <2> QED
        BY <1>1, <1>15, <2>2, <2>3 DEF Store, Typed, appVars, history, Fine
<1> QED
    BY <1>6, <1>7, <1>8, <1>9, <1>10, <1>11, <1>12, <1>13, <1>14, <1>15 DEF Caller, InCall

LEMMA NextTyped ==
    ASSUME IInv, Next
    PROVE  Typed'
<1>1. ASSUME NEW f \in {"get", "read", "write"}, CallWithNull(f)
      PROVE  Typed'
    BY <1>1 DEF CallWithNull, IInv, Typed, appVars, history
<1>9. ASSUME NEW t \in Callers, WriteKills(t)
      PROVE  Typed'
    BY <1>9 DEF WriteKills, IInv, Typed, appVars, history
<1> QED
    BY <1>1, <1>9, ApplicationTyped, ReceiverTyped, CallerTyped DEF Next, Application

-----------------------------------------------------------------------------
(* What every step of an actor leaves alone.                                *)

LEMMA CallerLeaves ==
    ASSUME IInv, NEW t \in Callers, Caller(t)
    PROVE  /\ client # NoOne /\ client \in Clients /\ ~closing
           /\ client' # NoOne /\ client' \in Clients /\ client'.fd = client.fd
           /\ client'.frame_cnt = client.frame_cnt /\ client'.frame_sem = client.frame_sem
           /\ UNCHANGED <<opens, closing, files, rcv, wild, pos, lost, leaked, failed>>
           /\ \A u \in Callers : u # t => caller'[u] = caller[u]
<1>1. client # NoOne /\ client \in Clients /\ ~closing
    <2>1. client # NoOne /\ ~closing
        BY DEF IInv, Placed, Caller, InCall, Idle, Call, Write, ReadEnter, GetEnter, ReadPop,
               ReadLeave, GetPop, GetLeave, Load, Store, CallerAt
    <2> QED
        BY <2>1, ClientTyped DEF IInv
<1>2. /\ client' \in Clients /\ client'.fd = client.fd
      /\ client'.frame_cnt = client.frame_cnt /\ client'.frame_sem = client.frame_sem
    <2>1. \/ client' = client
          \/ \E m \in {NoOne} \cup Callers : client' = [client EXCEPT !.recv_mutex = m]
          \/ \E m \in {NoOne} \cup Callers : client' = [client EXCEPT !.send_mutex = m]
          \/ \E l \in Seq(Frame) : client' = [client EXCEPT !.list = l]
          \/ \E n \in Nat : client' = [client EXCEPT !.snd_frame_cnt = n]
        <3>1. ReadPop(t) => Tail(client.list) \in Seq(Frame)
            BY <1>1, HeadTailProperties DEF ReadPop, Clients
        <3>2. caller[t].copy + 1 \in Nat
            BY DEF IInv, Typed
        <3>3. ReadPop(t) => client' = [client EXCEPT !.list = Tail(client.list)]
            BY <1>1 DEF ReadPop, Clients
        <3>4. Store(t) => client' = [client EXCEPT !.snd_frame_cnt = caller[t].copy + 1]
            BY DEF Store
        <3>5. ReadEnter(t) => client' = [client EXCEPT !.recv_mutex = t]
            BY DEF ReadEnter
        <3>6. ReadLeave(t) => client' = [client EXCEPT !.recv_mutex = NoOne]
            BY DEF ReadLeave
        <3>7. GetEnter(t) => client' = [client EXCEPT !.send_mutex = t]
            BY DEF GetEnter
        <3>8. GetLeave(t) => client' = [client EXCEPT !.send_mutex = NoOne]
            BY DEF GetLeave
        <3>9. Call(t) \/ Write(t) \/ GetPop(t) \/ Load(t) => client' = client
            BY DEF Call, Write, GetPop, Load
        <3> QED
            BY <3>1, <3>2, <3>3, <3>4, <3>5, <3>6, <3>7, <3>8, <3>9 DEF Caller, InCall
    <2> QED
        BY <1>1, <2>1 DEF Clients
<1>3. UNCHANGED <<opens, closing, files, rcv, wild, pos, lost, leaked, failed>>
    BY DEF Caller, InCall, Call, Write, ReadEnter, GetEnter, ReadPop,
           ReadLeave, GetPop, GetLeave, Load, Store, appVars, history
<1>4. \A u \in Callers : u # t => caller'[u] = caller[u]
    <2>1. caller \in [Callers -> [at : CallerPlaces, copy : Nat]]
        BY DEF IInv, Typed
    <2>2. \/ caller' = caller \/ \E place : caller' = [caller EXCEPT ![t].at = place]
          \/ \E c : caller' = [caller EXCEPT ![t] = c]
        BY DEF Caller, InCall, Call, Write, ReadEnter, GetEnter, ReadPop,
           ReadLeave, GetPop, GetLeave, Load, Store, CallerGoes
    <2> QED
        BY <2>1, <2>2
<1> QED
    BY <1>1, <1>2, <1>3, <1>4, Constants

\* Where a step of a receive thread takes it.
Moves(g, place, n, c, f) ==
    /\ rcv'[g].at = place /\ rcv'[g].fd = n /\ rcv'[g].conn = c /\ rcv'[g].frame = f
    /\ \A h \in Opens : h # g => rcv'[h] = rcv[h]

LEMMA Moved ==
    ASSUME Typed, NEW g \in Opens, NEW place \in ThreadPlaces,
           NEW n \in Fds, NEW c \in {0} \cup Opens, NEW f \in Frame \cup {NoFrame}
    PROVE  /\ rcv' = [rcv EXCEPT ![g].at = place] =>
                  Moves(g, place, rcv[g].fd, rcv[g].conn, rcv[g].frame)
           /\ rcv' = [rcv EXCEPT ![g].at = place, ![g].fd = n] =>
                  Moves(g, place, n, rcv[g].conn, rcv[g].frame)
           /\ rcv' = [rcv EXCEPT ![g].at = place, ![g].conn = c] =>
                  Moves(g, place, rcv[g].fd, c, rcv[g].frame)
           /\ rcv' = [rcv EXCEPT ![g].at = place, ![g].frame = f] =>
                  Moves(g, place, rcv[g].fd, rcv[g].conn, f)
           /\ rcv' = [rcv EXCEPT ![g].at = place, ![g].conn = c, ![g].frame = f] =>
                  Moves(g, place, rcv[g].fd, c, f)
<1> DEFINE Same(r, s) == \A h \in Opens : h # g => r[h] = s[h]
<1>1. ASSUME NEW r \in [Opens -> Thread]
      PROVE  /\ [r EXCEPT ![g].at = place] \in [Opens -> Thread]
             /\ [r EXCEPT ![g].at = place][g].at = place
             /\ [r EXCEPT ![g].at = place][g].fd = r[g].fd
             /\ [r EXCEPT ![g].at = place][g].conn = r[g].conn
             /\ [r EXCEPT ![g].at = place][g].frame = r[g].frame
             /\ Same([r EXCEPT ![g].at = place], r)
    BY DEF Thread
<1>2. ASSUME NEW r \in [Opens -> Thread]
      PROVE  /\ [r EXCEPT ![g].conn = c] \in [Opens -> Thread]
             /\ [r EXCEPT ![g].conn = c][g].at = r[g].at
             /\ [r EXCEPT ![g].conn = c][g].fd = r[g].fd
             /\ [r EXCEPT ![g].conn = c][g].conn = c
             /\ [r EXCEPT ![g].conn = c][g].frame = r[g].frame
             /\ Same([r EXCEPT ![g].conn = c], r)
    BY DEF Thread
<1>3. ASSUME NEW r \in [Opens -> Thread]
      PROVE  /\ [r EXCEPT ![g].fd = n][g].at = r[g].at
             /\ [r EXCEPT ![g].fd = n][g].fd = n
             /\ [r EXCEPT ![g].fd = n][g].conn = r[g].conn
             /\ [r EXCEPT ![g].fd = n][g].frame = r[g].frame
             /\ Same([r EXCEPT ![g].fd = n], r)
    BY DEF Thread
<1>4. ASSUME NEW r \in [Opens -> Thread]
      PROVE  /\ [r EXCEPT ![g].frame = f][g].at = r[g].at
             /\ [r EXCEPT ![g].frame = f][g].fd = r[g].fd
             /\ [r EXCEPT ![g].frame = f][g].conn = r[g].conn
             /\ [r EXCEPT ![g].frame = f][g].frame = f
             /\ Same([r EXCEPT ![g].frame = f], r)
    BY DEF Thread
<1> DEFINE there == [rcv EXCEPT ![g].at = place]
           known == [there EXCEPT ![g].conn = c]
<1>5. /\ there \in [Opens -> Thread] /\ Same(there, rcv)
      /\ there[g].at = place /\ there[g].fd = rcv[g].fd
      /\ there[g].conn = rcv[g].conn /\ there[g].frame = rcv[g].frame
    BY <1>1 DEF Typed
<1> HIDE DEF there
<1>6. /\ known \in [Opens -> Thread] /\ Same(known, rcv)
      /\ known[g].at = place /\ known[g].fd = rcv[g].fd
      /\ known[g].conn = c /\ known[g].frame = rcv[g].frame
    BY <1>2, <1>5
<1> HIDE DEF known
<1>7. rcv' = there => Moves(g, place, rcv[g].fd, rcv[g].conn, rcv[g].frame)
    BY <1>5 DEF Moves
<1>8. rcv' = [there EXCEPT ![g].fd = n] => Moves(g, place, n, rcv[g].conn, rcv[g].frame)
    BY <1>3, <1>5 DEF Moves
<1>9. rcv' = known => Moves(g, place, rcv[g].fd, c, rcv[g].frame)
    BY <1>6 DEF Moves
<1>10. rcv' = [there EXCEPT ![g].frame = f] => Moves(g, place, rcv[g].fd, rcv[g].conn, f)
    BY <1>4, <1>5 DEF Moves
<1>11. rcv' = [known EXCEPT ![g].frame = f] => Moves(g, place, rcv[g].fd, c, f)
    BY <1>4, <1>6 DEF Moves
<1> QED
    BY <1>7, <1>8, <1>9, <1>10, <1>11 DEF there, known

\* What it leaves alone.
LEMMA ReceiverLeaves ==
    ASSUME IInv, NEW g \in Opens, Receiver(g), ~UseFreed(g)
    PROVE  /\ UNCHANGED <<opens, closing, files, caller, taken, written, failed, wild>>
           /\ client = NoOne <=> client' = NoOne
           /\ client # NoOne => /\ client \in Clients /\ client' \in Clients
                                /\ client'.fd = client.fd
                                /\ client'.send_mutex = client.send_mutex
                                /\ client'.snd_frame_cnt = client.snd_frame_cnt
           /\ \A h \in Opens : h # g => rcv'[h] = rcv[h]
           /\ rcv[g].at # "none" /\ g <= opens /\ opens \in Nat
<1>1. UNCHANGED <<opens, closing, files, caller, taken, written, failed, wild>>
    BY DEF Receiver, Start, ReadCall, ReadNothing, ReadBytes, FrameNew, Insert, InsertLeave,
           Post, appVars, history
<1>2. client # NoOne => client \in Clients
    BY DEF IInv, Typed
<1>3. /\ client = NoOne <=> client' = NoOne
      /\ client # NoOne => /\ client' \in Clients
                           /\ client'.fd = client.fd
                           /\ client'.send_mutex = client.send_mutex
                           /\ client'.snd_frame_cnt = client.snd_frame_cnt
    <2>1. CASE Insert(g)
        BY <2>1, InsertDoes, Constants
    <2>2. ASSUME ~Insert(g)
          PROVE  \/ client' = client
                 \/ client # NoOne /\ client' = [client EXCEPT !.recv_mutex = NoOne]
                 \/ client # NoOne /\ client' = [client EXCEPT !.frame_sem = client.frame_sem + 1]
        BY <2>2 DEF Receiver, Start, ReadCall, ReadNothing, ReadBytes, FrameNew, InsertLeave,
               Post, Alive
    <2>3. ASSUME client # NoOne
          PROVE  /\ [client EXCEPT !.recv_mutex = NoOne] \in Clients
                 /\ [client EXCEPT !.frame_sem = client.frame_sem + 1] \in Clients
        BY <1>2, <2>3 DEF Clients
    <2>4. ASSUME client # NoOne, client' = [client EXCEPT !.recv_mutex = NoOne]
          PROVE  /\ client'.fd = client.fd
                 /\ client'.send_mutex = client.send_mutex
                 /\ client'.snd_frame_cnt = client.snd_frame_cnt
        BY <1>2, <2>4 DEF Clients
    <2>5. ASSUME client # NoOne, client' = [client EXCEPT !.frame_sem = client.frame_sem + 1]
          PROVE  /\ client'.fd = client.fd
                 /\ client'.send_mutex = client.send_mutex
                 /\ client'.snd_frame_cnt = client.snd_frame_cnt
        BY <1>2, <2>5 DEF Clients
    <2>6. CASE client' = client
        BY <1>2, <2>6
    <2> QED
        BY <1>2, <2>1, <2>2, <2>3, <2>4, <2>5, <2>6, Constants
<1>5. rcv[g].at # "none"
    BY DEF Receiver, Start, ReadCall, ReadNothing, ReadBytes, FrameNew, Insert, InsertLeave,
           Post, At
<1>6. \A h \in Opens : h # g => rcv'[h] = rcv[h]
    <2>1. rcv \in [Opens -> Thread]
        BY DEF IInv, Typed
    <2> QED
        BY <2>1 DEF Receiver, Start, ReadCall, ReadNothing, ReadBytes, FrameNew, Insert,
               InsertLeave, Post, Goes
<1>7. g <= opens /\ opens \in Nat
    BY <1>5, UsersOpened, Constants DEF IInv, Typed
<1> QED
    BY <1>1, <1>2, <1>3, <1>5, <1>6, <1>7

-----------------------------------------------------------------------------
(* Places.                                                                  *)

LEMMA ApplicationPlaced ==
    ASSUME IInv, OpenClient \/ (\E s \in OpenStages : OpenFails(s)) \/ CloseSocket \/ CloseFree
    PROVE  Placed'
<1>1. Typed /\ Placed /\ opens \in Nat
    BY Constants DEF IInv, Typed
<1>2. opens < MaxOpens => /\ LowestFd \in Fds /\ opens + 1 \in Opens
                          /\ Connected \in [Fds -> {0} \cup Opens]
                          /\ Connected[LowestFd] = opens + 1
                          /\ \A fd \in Fds : Connected[fd] <= opens + 1
    <2>1. opens < MaxOpens => /\ LowestFd \in Fds /\ opens + 1 \in Opens /\ opens + 1 \in Nat
                              /\ Connected \in [Fds -> {0} \cup Opens]
                              /\ Connected[LowestFd] = opens + 1
                              /\ \A fd \in Fds : fd # LowestFd => Connected[fd] = files[fd]
        BY <1>1, FdFree, Constants DEF Typed, Connected
    <2>2. \A fd \in Fds : files[fd] <= opens /\ files[fd] \in Nat
        BY <1>1, Constants DEF Typed, Placed
    <2> QED
        BY <1>1, <2>1, <2>2
<1>3. CASE OpenClient
    <2>1. Moves(opens + 1, "start", 0, 0, NoFrame)
        <3>1. rcv[opens + 1] = NoThread
            BY <1>1, <1>2, <1>3 DEF OpenClient, Placed
        <3> QED
            <4>1. /\ "start" \in ThreadPlaces /\ 0 \in Fds /\ 0 \in {0} \cup Opens
                  /\ NoFrame \in Frame \cup {NoFrame} /\ opens + 1 \in Opens
                BY <1>2, <1>3, Constants DEF ThreadPlaces, OpenClient
            <4>2. rcv' = [rcv EXCEPT ![opens + 1].at = "start"]
                BY <1>3 DEF OpenClient
            <4>3. Moves(opens + 1, "start", rcv[opens + 1].fd, rcv[opens + 1].conn,
                        rcv[opens + 1].frame)
                BY <1>1, <4>1, <4>2, Moved
            <4> QED
                BY <3>1, <4>3 DEF NoThread
    <2>2. client' = NewClient(LowestFd) /\ client' # NoOne /\ client'.fd = LowestFd
        BY <1>2, <1>3, NewClientTyped DEF OpenClient, NewClient
    <2>3. closing = FALSE
        BY <1>1, <1>3 DEF OpenClient, Placed, Typed
    <2>4. opens' = opens + 1 /\ opens' \in Opens /\ caller' = caller /\ files' = Connected
          /\ closing' = FALSE /\ files'[LowestFd] = opens'
        BY <1>2, <1>3, <2>3 DEF OpenClient
    <2>5. \A g \in Opens : g > opens' => rcv'[g] = NoThread
        BY <1>1, <2>1, <2>4, Constants DEF Placed, Moves
    <2>6. \A g \in Opens : rcv'[g].conn <= opens' /\ rcv'[g].frame.conn <= opens'
        <3>1. opens \in Nat
            BY <1>1 DEF Typed
        <3>2. ASSUME NEW g \in Opens, g # opens + 1
              PROVE  rcv'[g].conn <= opens' /\ rcv'[g].frame.conn <= opens'
            <4>1. rcv'[g] = rcv[g]
                BY <2>1, <3>2 DEF Moves
            <4>2. rcv[g].conn <= opens /\ rcv[g].frame.conn <= opens
                BY <1>1 DEF Placed
            <4>3. rcv[g].conn \in Nat /\ rcv[g].frame.conn \in Nat
                BY <1>1, ThreadTyped
            <4> QED
                BY <2>4, <3>1, <4>1, <4>2, <4>3
        <3>3. rcv'[opens + 1].conn = 0 /\ rcv'[opens + 1].frame.conn = 0
            BY <2>1, Constants DEF Moves
        <3>4. 0 <= opens'
            BY <2>4, <3>1
        <3> QED
            BY <2>4, <3>2, <3>3, <3>4
    <2>7. \A g \in Opens : /\ rcv'[g].at \in {"count", "lock"} <=> rcv'[g].frame # NoFrame
                           /\ rcv'[g].at = "blocked" => rcv'[g].conn # 0
        BY <1>1, <2>1 DEF Placed, Moves, At
    <2>8. rcv'[opens'].conn = 0 /\ rcv'[opens'].frame.conn = 0 /\ rcv'[opens'].at = "start"
        BY <2>1, <2>4, Constants DEF Moves
    <2> QED
        <3>1. client'.fd \in Fds /\ files'[client'.fd] = opens'
            BY <1>2, <1>3, <2>2, <2>4 DEF OpenClient
        <3>2. \A fd \in Fds : files'[fd] <= opens'
            BY <1>2, <1>3, <2>4 DEF OpenClient
        <3> QED
            BY <2>2, <2>4, <2>5, <2>6, <2>7, <2>8, <3>1, <3>2 DEF Placed, At
<1>4. ASSUME NEW s \in OpenStages, OpenFails(s)
      PROVE  Placed'
    <2>1. \A fd \in Fds : files'[fd] <= opens + 1
        <3>1. \A fd \in Fds : files[fd] <= opens /\ files[fd] \in Nat
            BY <1>1, Constants DEF Typed, Placed
        <3> QED
            BY <1>1, <1>2, <1>4, <3>1 DEF OpenFails
    <2>2. \A g \in Opens : /\ rcv[g].conn <= opens + 1 /\ rcv[g].frame.conn <= opens + 1
                           /\ g > opens + 1 => g > opens
        BY <1>1, ThreadTyped, Constants DEF Placed
    <2> QED
        BY <1>1, <1>4, <2>1, <2>2 DEF OpenFails, Placed, At, Idle
<1>5. CASE CloseSocket
    <2>1. client # NoOne /\ client.fd \in Fds /\ opens \in Opens
        BY <1>1, <1>5, ClientTyped DEF CloseSocket, Placed
    <2>2. files'[client.fd] = 0 /\ \A fd \in Fds : files'[fd] <= opens
        BY <1>1, <1>5, <2>1 DEF CloseSocket, Placed, Typed
    <2> QED
        BY <1>1, <1>5, <2>1, <2>2 DEF CloseSocket, Placed, At, Idle, history
<1>6. CASE CloseFree
    BY <1>1, <1>6 DEF CloseFree, Placed, At, Idle, history
<1> QED
    BY <1>3, <1>4, <1>5, <1>6

\* Where every step of a receive thread takes it.
LEMMA ReceiverMoves ==
    ASSUME IInv, NEW g \in Opens
    PROVE  /\ Start(g) => Moves(g, "read", client.fd, rcv[g].conn, rcv[g].frame)
           /\ ReadCall(g) => Moves(g, "blocked", rcv[g].fd, files[rcv[g].fd], rcv[g].frame)
           /\ ReadNothing(g) => Moves(g, "read", rcv[g].fd, 0, rcv[g].frame)
           /\ FrameNew(g) =>
                \/ /\ Moves(g, "lock", rcv[g].fd, rcv[g].conn, rcv[g].frame)
                   /\ blocks' = blocks + 1 /\ lost' = lost
                \/ /\ Moves(g, "read", rcv[g].fd, rcv[g].conn, NoFrame)
                   /\ blocks' = blocks
                   /\ lost' = [lost EXCEPT !.frame = @ \cup {rcv[g].frame}]
           /\ Insert(g) => Moves(g, "leave", rcv[g].fd, rcv[g].conn, NoFrame)
           /\ InsertLeave(g) => Moves(g, "post", rcv[g].fd, rcv[g].conn, rcv[g].frame)
           /\ Post(g) => Moves(g, "read", rcv[g].fd, rcv[g].conn, rcv[g].frame)
<1>1. Typed
    BY DEF IInv
<1>2. /\ 0 \in Fds /\ 0 \in {0} \cup Opens /\ NoFrame \in Frame \cup {NoFrame}
      /\ {"start", "read", "blocked", "count", "lock", "leave", "post"} \subseteq ThreadPlaces
      /\ rcv[g].fd \in Fds
    BY <1>1, ThreadTyped, Constants DEF ThreadPlaces
<1>3. ASSUME Start(g) PROVE Moves(g, "read", client.fd, rcv[g].conn, rcv[g].frame)
    <2>1. client.fd \in Fds /\ rcv' = [rcv EXCEPT ![g].at = "read", ![g].fd = client.fd]
        BY <1>1, <1>3, ClientTyped DEF Start, Alive
    <2> QED
        BY <1>1, <1>2, <2>1, Moved
<1>4. ASSUME ReadCall(g)
      PROVE  Moves(g, "blocked", rcv[g].fd, files[rcv[g].fd], rcv[g].frame)
    <2>1. files[rcv[g].fd] \in {0} \cup Opens
          /\ rcv' = [rcv EXCEPT ![g].at = "blocked", ![g].conn = files[rcv[g].fd]]
        BY <1>1, <1>2, <1>4 DEF ReadCall, Typed
    <2> QED
        BY <1>1, <1>2, <2>1, Moved
<1>5. ASSUME ReadNothing(g) PROVE Moves(g, "read", rcv[g].fd, 0, rcv[g].frame)
    BY <1>1, <1>2, <1>5, Moved DEF ReadNothing
<1>6. /\ rcv' = [rcv EXCEPT ![g].at = "lock"] =>
             Moves(g, "lock", rcv[g].fd, rcv[g].conn, rcv[g].frame)
      /\ rcv' = [rcv EXCEPT ![g].at = "post"] =>
             Moves(g, "post", rcv[g].fd, rcv[g].conn, rcv[g].frame)
      /\ rcv' = [rcv EXCEPT ![g].at = "read"] =>
             Moves(g, "read", rcv[g].fd, rcv[g].conn, rcv[g].frame)
      /\ rcv' = [rcv EXCEPT ![g].at = "read", ![g].frame = NoFrame] =>
             Moves(g, "read", rcv[g].fd, rcv[g].conn, NoFrame)
      /\ rcv' = [rcv EXCEPT ![g].at = "leave", ![g].frame = NoFrame] =>
             Moves(g, "leave", rcv[g].fd, rcv[g].conn, NoFrame)
    BY <1>1, <1>2, Moved
<1>7. FrameNew(g) =>
        \/ rcv' = [rcv EXCEPT ![g].at = "lock"] /\ blocks' = blocks + 1 /\ lost' = lost
        \/ /\ rcv' = [rcv EXCEPT ![g].at = "read", ![g].frame = NoFrame] /\ blocks' = blocks
           /\ lost' = [lost EXCEPT !.frame = @ \cup {rcv[g].frame}]
    BY DEF FrameNew, Goes
<1>8. /\ Insert(g) => rcv' = [rcv EXCEPT ![g].at = "leave", ![g].frame = NoFrame]
      /\ InsertLeave(g) => rcv' = [rcv EXCEPT ![g].at = "post"]
      /\ Post(g) => rcv' = [rcv EXCEPT ![g].at = "read"]
    BY DEF Insert, InsertLeave, Post, Goes
<1> QED
    BY <1>3, <1>4, <1>5, <1>6, <1>7, <1>8

\* What a read returned is a new frame of its connection.
LEMMA ReadMoves ==
    ASSUME IInv, NEW g \in Opens, ReadBytes(g)
    PROVE  \E n \in Nat, before \in Nat, f \in Frame :
               /\ n > 0 /\ n <= FrameLen
               /\ before = (IF rcv[g].conn = opens THEN pos ELSE 0)
               /\ before + n <= MaxBytes
               /\ pos' = (IF rcv[g].conn = opens THEN pos + n ELSE pos)
               /\ f.from = before + 1 /\ f.upto = before + n /\ f.conn = rcv[g].conn
               /\ Moves(g, "count", rcv[g].fd, 0, f)
<1>1. PICK n \in ReadLengths, before \in Nat :
          /\ before = (IF rcv[g].conn = opens THEN pos ELSE 0)
          /\ before + n <= MaxBytes
          /\ pos' = (IF rcv[g].conn = opens THEN pos + n ELSE pos)
          /\ rcv' = [rcv EXCEPT ![g].at = "count", ![g].conn = 0,
                       ![g].frame = [from |-> before + 1, upto |-> before + n,
                                     conn |-> rcv[g].conn]]
    <2>1. pos \in Nat
        BY Constants DEF IInv, Typed
    <2> QED
        BY <2>1 DEF ReadBytes
<1> DEFINE frame == [from |-> before + 1, upto |-> before + n, conn |-> rcv[g].conn]
<1>2. frame \in Frame /\ before \in Nat /\ n \in Nat /\ n > 0
    BY <1>1, ReadTyped DEF ReadBytes
<1>3. frame.from = before + 1 /\ frame.upto = before + n /\ frame.conn = rcv[g].conn
    OBVIOUS
<1>4. rcv' = [rcv EXCEPT ![g].at = "count", ![g].conn = 0, ![g].frame = frame]
    BY <1>1
<1> HIDE DEF frame
<1>5. Moves(g, "count", rcv[g].fd, 0, frame)
    <2>1. /\ 0 \in {0} \cup Opens /\ frame \in Frame \cup {NoFrame} /\ "count" \in ThreadPlaces
          /\ rcv[g].fd \in Fds /\ Typed
        BY <1>2, ThreadTyped DEF ThreadPlaces, IInv
    <2> QED
        BY <1>4, <2>1, Moved
<1>6. n <= FrameLen
    BY Constants DEF ReadLengths
<1> QED
    BY <1>1, <1>2, <1>3, <1>5, <1>6

LEMMA ReceiverPlaced ==
    ASSUME IInv, NEW g \in Opens, Receiver(g)
    PROVE  Placed'
<1>1. CASE UseFreed(g)
    BY <1>1 DEF UseFreed, IInv, Placed, At, Idle, appVars, history
<1>2. ASSUME ~UseFreed(g)
      PROVE  Placed'
    <2>1. /\ UNCHANGED <<opens, closing, files, caller>>
          /\ client = NoOne <=> client' = NoOne
          /\ client # NoOne => client'.fd = client.fd
          /\ rcv[g].at # "none" /\ g <= opens /\ opens \in Nat
          /\ \A h \in Opens : h # g => rcv'[h] = rcv[h]
        BY <1>2, ReceiverLeaves
    <2>2. Placed /\ Typed /\ \A h \in Opens : ~(g > opens)
        BY <2>1, Constants DEF IInv
    <2>3. \A n \in Fds : files[n] \in Nat /\ files[n] <= opens
        BY <2>2, Constants DEF Typed, Placed
    <2>4. rcv'[g].conn <= opens /\ rcv'[g].frame.conn <= opens
        <3>1. rcv[g].fd \in Fds /\ 0 <= opens /\ NoFrame.conn = 0
              /\ rcv[g].conn <= opens /\ rcv[g].frame.conn <= opens
            BY <2>1, <2>2, ThreadTyped, Constants DEF Placed
        <3> QED
            BY <1>2, <2>3, <3>1, ReceiverMoves, ReadMoves DEF Moves, Receiver
    <2>5. rcv'[g].at \in {"count", "lock"} <=> rcv'[g].frame # NoFrame
        <3>1. rcv[g].at \in {"count", "lock"} <=> rcv[g].frame # NoFrame
            BY <2>2 DEF Placed
        <3>2. CASE Start(g)
            BY <3>1, <3>2, ReceiverMoves DEF Moves, Start, At
        <3>3. CASE ReadCall(g)
            BY <3>1, <3>3, ReceiverMoves DEF Moves, ReadCall, At
        <3>4. CASE ReadNothing(g)
            BY <3>1, <3>4, ReceiverMoves DEF Moves, ReadNothing, At
        <3>5. CASE FrameNew(g)
            BY <3>1, <3>5, ReceiverMoves DEF Moves, FrameNew, At
        <3>6. CASE Insert(g)
            BY <3>1, <3>6, ReceiverMoves DEF Moves, Insert, At
        <3>7. CASE InsertLeave(g)
            BY <3>1, <3>7, ReceiverMoves DEF Moves, InsertLeave, At
        <3>8. CASE Post(g)
            BY <3>1, <3>8, ReceiverMoves DEF Moves, Post, At
        <3>9. CASE ReadBytes(g)
            BY <3>9, ReadMoves, Constants DEF Moves
        <3> QED
            BY <1>2, <3>2, <3>3, <3>4, <3>5, <3>6, <3>7, <3>8, <3>9 DEF Receiver
    <2>6. rcv'[g].at = "blocked" => rcv'[g].conn # 0
        BY <1>2, ReceiverMoves, ReadMoves DEF Moves, Receiver, ReadCall
    <2>7. ASSUME client # NoOne, g = opens
          PROVE  /\ rcv'[g].conn \in {0, opens} /\ rcv'[g].frame.conn \in {0, opens}
                 /\ rcv'[g].at \notin {"none", "start"} => rcv'[g].fd = client.fd
        <3>1. /\ rcv[g].conn \in {0, opens} /\ rcv[g].frame.conn \in {0, opens}
              /\ rcv[g].at \notin {"none", "start"} => rcv[g].fd = client.fd
              /\ files[client.fd] \in {0, opens} /\ NoFrame.conn = 0
            BY <2>2, <2>7, Constants DEF Placed
        <3>2. CASE Start(g)
            BY <2>7, <3>1, <3>2, ReceiverMoves DEF Moves, Start, At
        <3>3. CASE ReadCall(g)
            <4>1. rcv[g].fd = client.fd
                BY <3>1, <3>3 DEF ReadCall, At
            <4>2. Moves(g, "blocked", rcv[g].fd, files[rcv[g].fd], rcv[g].frame)
                BY <3>3, ReceiverMoves
            <4> QED
                BY <3>1, <4>1, <4>2 DEF Moves
        <3>4. CASE ReadNothing(g)
            BY <2>7, <3>1, <3>4, ReceiverMoves DEF Moves, ReadNothing, At
        <3>5. CASE FrameNew(g)
            BY <2>7, <3>1, <3>5, ReceiverMoves DEF Moves, FrameNew, At
        <3>6. CASE Insert(g)
            BY <2>7, <3>1, <3>6, ReceiverMoves DEF Moves, Insert, At
        <3>7. CASE InsertLeave(g)
            BY <2>7, <3>1, <3>7, ReceiverMoves DEF Moves, InsertLeave, At
        <3>8. CASE Post(g)
            BY <2>7, <3>1, <3>8, ReceiverMoves DEF Moves, Post, At
        <3>9. CASE ReadBytes(g)
            <4>1. rcv[g].at = "blocked"
                BY <3>9 DEF ReadBytes, At
            <4>2. /\ rcv'[g].fd = rcv[g].fd /\ rcv'[g].conn = 0
                  /\ rcv'[g].frame.conn = rcv[g].conn
                BY <3>9, ReadMoves DEF Moves
            <4> QED
                BY <2>7, <3>1, <4>1, <4>2
        <3> QED
            BY <1>2, <3>2, <3>3, <3>4, <3>5, <3>6, <3>7, <3>8, <3>9 DEF Receiver
    <2>8. \A h \in Opens : h > opens => h # g
        BY <2>1, Constants
    <2> QED
        <3>1. /\ \A h \in Opens : h > opens => rcv'[h] = NoThread
              /\ \A h \in Opens : rcv'[h].conn <= opens /\ rcv'[h].frame.conn <= opens
            BY <2>1, <2>2, <2>4, <2>8 DEF Placed
        <3>2. \A h \in Opens : /\ rcv'[h].at \in {"count", "lock"} <=> rcv'[h].frame # NoFrame
                               /\ rcv'[h].at = "blocked" => rcv'[h].conn # 0
            BY <2>1, <2>2, <2>5, <2>6 DEF Placed, At
        <3>3. ASSUME client # NoOne
              PROVE  /\ rcv'[opens].conn \in {0, opens} /\ rcv'[opens].frame.conn \in {0, opens}
                     /\ rcv'[opens].at \notin {"none", "start"} => rcv'[opens].fd = client.fd
            BY <2>1, <2>2, <2>7, <3>3 DEF Placed
        <3> QED
            <4>1. /\ opens' = opens /\ closing' = closing /\ files' = files /\ caller' = caller
                  /\ client' = NoOne <=> client = NoOne
                  /\ client # NoOne => client'.fd = client.fd
                BY <2>1
            <4>2. /\ \A fd \in Fds : files[fd] <= opens
                  /\ closing \/ client = NoOne => \A t \in Callers : caller[t].at = "idle"
                  /\ closing => client # NoOne
                  /\ client # NoOne => /\ opens \in Opens
                                       /\ files[client.fd] = IF closing THEN 0 ELSE opens
                BY <2>2 DEF Placed, Idle
            <4> QED
                BY <3>1, <3>2, <3>3, <4>1, <4>2 DEF Placed, At, Idle
<1> QED
    BY <1>1, <1>2

LEMMA CallerPlaced ==
    ASSUME IInv, NEW t \in Callers, Caller(t)
    PROVE  Placed'
BY CallerLeaves DEF IInv, Placed, At

LEMMA NextPlaced ==
    ASSUME IInv, Next
    PROVE  Placed'
<1>1. ASSUME NEW f \in {"get", "read", "write"}, CallWithNull(f)
      PROVE  Placed'
    BY <1>1 DEF CallWithNull, IInv, Placed, At, Idle, appVars, history
<1>9. ASSUME NEW t \in Callers, WriteKills(t)
      PROVE  Placed'
    BY <1>9 DEF WriteKills, IInv, Placed, At, Idle, appVars, history
<1> QED
    BY <1>1, <1>9, ApplicationPlaced, ReceiverPlaced, CallerPlaced DEF Next, Application

-----------------------------------------------------------------------------
(* Mutexes.                                                                 *)

\* What the steps do to the frames that came through the receive list: an insertion
\* with a node adds one at the end, and no caller adds or loses any.
LEMMA ReceiverQueue ==
    ASSUME IInv, NEW g \in Opens, Receiver(g), client # NoOne
    PROVE  /\ taken' = taken
           /\ ~Insert(g) => client'.list = client.list /\ Queue' = Queue
           /\ Insert(g) =>
                \/ client'.list = client.list /\ Queue' = Queue
                \/ /\ client'.list = Append(client.list, rcv[g].frame)
                   /\ Queue' = Append(Queue, rcv[g].frame)
<1>1. client \in Clients /\ taken \in Seq(Frame) /\ client.list \in Seq(Frame)
    BY ClientTyped DEF IInv, Typed
<1>2. CASE Insert(g)
    <2>1. taken' = taken
        BY <1>2 DEF Insert
    <2>2. ASSUME NEW f \in Frame
          PROVE  taken \o Append(client.list, f) = Append(taken \o client.list, f)
        BY <1>1
    <2> QED
        BY <1>2, <2>1, <2>2, InsertDoes DEF Queue
<1>3. ASSUME ~Insert(g)
      PROVE  taken' = taken /\ client'.list = client.list
    <2>1. \/ client' = client
          \/ client' = [client EXCEPT !.recv_mutex = NoOne]
          \/ client' = [client EXCEPT !.frame_sem = @ + 1]
        BY <1>3 DEF Receiver, Start, ReadCall, ReadNothing, ReadBytes, FrameNew, InsertLeave,
               Post, UseFreed
    <2>2. taken' = taken
        BY <1>3 DEF Receiver, Start, ReadCall, ReadNothing, ReadBytes, FrameNew, InsertLeave,
               Post, UseFreed, history
    <2> QED
        BY <1>1, <2>1, <2>2 DEF Clients
<1> QED
    BY <1>2, <1>3 DEF Queue

LEMMA CallerQueue ==
    ASSUME IInv, NEW t \in Callers, Caller(t)
    PROVE  /\ Queue' = Queue
           /\ ReadPop(t) => /\ client.list # <<>>
                            /\ Len(client'.list) = Len(client.list) - 1
                            /\ blocks' = blocks - 2
           /\ ~ReadPop(t) => client'.list = client.list /\ taken' = taken /\ blocks' = blocks
<1>1. client \in Clients /\ taken \in Seq(Frame) /\ client.list \in Seq(Frame)
    BY CallerLeaves, ClientTyped DEF IInv, Typed
<1>2. CASE ReadPop(t)
    <2>1. client.list # <<>> /\ client'.list = Tail(client.list)
          /\ taken' = Append(taken, Head(client.list)) /\ blocks' = blocks - 2
        BY <1>1, <1>2 DEF ReadPop, Clients, FrameAndNodeFreed
    <2>2. Append(taken, Head(client.list)) \o Tail(client.list) = taken \o client.list
        <3> DEFINE first == <<Head(client.list)>>
                   rest == Tail(client.list)
        <3>1. /\ Head(client.list) \in Frame /\ rest \in Seq(Frame) /\ first \in Seq(Frame)
              /\ client.list = first \o rest
            BY <1>1, <2>1, HeadTailProperties
        <3>2. Append(taken, Head(client.list)) = taken \o first
            BY <1>1, <3>1, AppendIsConcat
        <3> HIDE DEF first, rest
        <3>3. (taken \o first) \o rest = taken \o (first \o rest)
            BY <1>1, <3>1, ConcatAssociative
        <3>4. (taken \o first) \o rest = taken \o client.list
            BY <3>1, <3>3
        <3> QED
            BY <3>2, <3>4 DEF rest
    <2>3. Len(Tail(client.list)) = Len(client.list) - 1
        BY <1>1, <2>1, HeadTailProperties
    <2> QED
        BY <1>2, <2>1, <2>2, <2>3 DEF Queue
<1>3. ASSUME ~ReadPop(t)
      PROVE  client'.list = client.list /\ taken' = taken /\ blocks' = blocks
    <2>1. taken' = taken /\ blocks' = blocks
        BY <1>3 DEF Caller, InCall, Call, Write, ReadEnter, GetEnter, ReadLeave, GetPop,
               GetLeave, Load, Store, history
    <2>2. \/ client' = client
          \/ \E m : client' = [client EXCEPT !.recv_mutex = m]
          \/ \E m : client' = [client EXCEPT !.send_mutex = m]
          \/ \E n : client' = [client EXCEPT !.snd_frame_cnt = n]
        BY <1>3 DEF Caller, InCall, Call, Write, ReadEnter, GetEnter, ReadLeave, GetPop,
               GetLeave, Load, Store
    <2> QED
        BY <1>1, <2>1, <2>2 DEF Clients
<1> QED
    BY <1>2, <1>3 DEF Queue

\* The open starts the thread of its own connection.
LEMMA ThreadStarted ==
    ASSUME IInv, OpenClient
    PROVE  rcv'[opens + 1].at = "start"
<1>1. rcv \in [Opens -> Thread] /\ opens + 1 \in Opens
    BY Constants DEF OpenClient, IInv, Typed
<1>2. rcv[opens + 1] \in Thread /\ rcv' = [rcv EXCEPT ![opens + 1].at = "start"]
    BY <1>1 DEF OpenClient
<1>3. rcv'[opens + 1] = [rcv[opens + 1] EXCEPT !.at = "start"]
    BY <1>1, <1>2
<1> QED
    BY <1>2, <1>3 DEF Thread

LEMMA ApplicationLocks ==
    ASSUME IInv, OpenClient \/ (\E s \in OpenStages : OpenFails(s)) \/ CloseSocket \/ CloseFree
    PROVE  Locks'
<1>1. CASE OpenClient
    <2>1. /\ client'.list = <<>> /\ client'.recv_mutex = NoOne /\ client'.send_mutex = NoOne
          /\ caller' = caller /\ opens' = opens + 1
        BY <1>1 DEF OpenClient, NewClient
    <2>2. \A t \in Callers : caller[t].at = "idle"
        BY <1>1 DEF OpenClient, IInv, Placed, Idle
    <2>3. rcv'[opens + 1].at = "start"
        BY <1>1, ThreadStarted
    <2> QED
        BY <2>1, <2>2, <2>3, Constants DEF Locks, CallerAt, Inside, SawFrame, At
<1>2. CASE \E s \in OpenStages : OpenFails(s)
    BY <1>2 DEF OpenFails, Locks
<1>3. CASE CloseSocket
    BY <1>3 DEF CloseSocket, IInv, Locks, CallerAt, Inside, SawFrame, At, Queue, history
<1>4. CASE CloseFree
    BY <1>4 DEF CloseFree, Locks
<1> QED
    BY <1>1, <1>2, <1>3, <1>4

LEMMA ReceiverLocks ==
    ASSUME IInv, NEW g \in Opens, Receiver(g)
    PROVE  Locks'
<1>1. CASE UseFreed(g)
    BY <1>1 DEF UseFreed, IInv, Locks, CallerAt, Inside, SawFrame, At, Queue, appVars, history
<1>2. ASSUME ~UseFreed(g), client # NoOne
      PROVE  Locks'
    <2>1. /\ caller' = caller /\ opens' = opens
          /\ client'.send_mutex = client.send_mutex /\ client \in Clients /\ client' \in Clients
          /\ \A h \in Opens : h # g => rcv'[h] = rcv[h]
        BY <1>2, ReceiverLeaves
    <2>2. /\ client.list # <<>> => client'.list # <<>>
          /\ Queue # <<>> => Queue' # <<>>
        <3>1. client.list \in Seq(Frame) /\ Queue \in Seq(Frame)
            BY <1>2, ClientTyped DEF IInv
        <3>2. \A s \in Seq(Frame), f \in Frame : Append(s, f) # <<>>
            BY AppendProperties
        <3> QED
            BY <1>2, <3>1, <3>2, ReceiverQueue, InsertDoes
    <2>3. Locks
        BY DEF IInv
    <2>4. CASE Insert(g)
        <3>1. g = opens /\ client'.recv_mutex = g /\ client.recv_mutex = NoOne /\ rcv'[g].at = "leave"
            BY <2>4, InsertDoes, ReceiverMoves DEF Moves
        <3>2. /\ \A t \in Callers : client'.recv_mutex = t <=> Inside(t, {"pop", "leave"})
              /\ \A h \in Opens : client'.recv_mutex = h <=> (rcv'[h].at = "leave" /\ h = opens)
            BY <1>2, <2>3, <3>1, Constants DEF Locks
        <3> QED
            BY <1>2, <2>1, <2>2, <2>3, <3>2 DEF Locks, CallerAt, Inside, SawFrame, At
    <2>5. CASE InsertLeave(g)
        <3>1. client'.recv_mutex = NoOne /\ rcv'[g].at = "post" /\ client.recv_mutex = g
            BY <1>2, <2>1, <2>3, <2>5, ReceiverMoves
            DEF InsertLeave, Clients, Moves, Locks, Alive
        <3>2. /\ \A t \in Callers : client'.recv_mutex = t <=> Inside(t, {"pop", "leave"})
              /\ \A h \in Opens : client'.recv_mutex = h <=> (rcv'[h].at = "leave" /\ h = opens)
            BY <1>2, <2>1, <2>3, <2>5, <3>1, Constants DEF Locks, InsertLeave, Alive, At
        <3> QED
            BY <1>2, <2>1, <2>2, <2>3, <3>2 DEF Locks, CallerAt, Inside, SawFrame, At
    <2>6. ASSUME ~Insert(g), ~InsertLeave(g)
          PROVE  Locks'
        <3>1. client'.recv_mutex = client.recv_mutex
            BY <1>2, <2>1, <2>6 DEF Receiver, Start, ReadCall, ReadNothing, ReadBytes, FrameNew,
                   Post, Clients
        <3>2. rcv[g].at # "leave"
            BY <1>2, <2>6 DEF Receiver, Start, ReadCall, ReadNothing, ReadBytes, FrameNew, Post, At
        <3>3. rcv'[g].at # "leave"
            BY <1>2, <2>6, ReceiverMoves, ReadMoves DEF Receiver, Moves
        <3> QED
            BY <1>2, <2>1, <2>2, <2>3, <3>1, <3>2, <3>3
            DEF Locks, CallerAt, Inside, SawFrame, At
    <2> QED
        BY <2>4, <2>5, <2>6
<1>3. CASE client = NoOne
    BY <1>1, <1>3, ReceiverLeaves DEF Locks
<1> QED
    BY <1>1, <1>2, <1>3

\* The mutexes after every step of a caller, and where it is.
LEMMA CallerMoves ==
    ASSUME IInv, NEW t \in Callers
    PROVE  /\ Call(t) => /\ caller[t].at = "idle" /\ caller'[t].at \in {"read", "get"}
                         /\ client' = client /\ written' = written
           /\ Write(t) => /\ caller[t].at = "idle"
                          /\ client' = client
                          /\ \/ caller'[t].at = "load" /\ written' = written + 1
                             \/ caller' = caller /\ written' = written
           /\ ReadEnter(t) => /\ caller[t].at = "read" /\ client.recv_mutex = NoOne
                              /\ caller'[t].at = (IF client.list # <<>> THEN "pop" ELSE "leave")
                              /\ client' = [client EXCEPT !.recv_mutex = t]
                              /\ written' = written
           /\ ReadPop(t) => /\ caller[t].at = "pop" /\ caller'[t].at = "leave"
                            /\ client' = [client EXCEPT !.list = Tail(@)]
                            /\ written' = written
           /\ ReadLeave(t) => /\ caller[t].at = "leave" /\ caller'[t].at = "idle"
                              /\ client' = [client EXCEPT !.recv_mutex = NoOne]
                              /\ written' = written
           /\ GetEnter(t) => /\ caller[t].at = "get" /\ client.send_mutex = NoOne
                             /\ caller'[t].at = (IF client.list = <<>> THEN "unlock" ELSE "getpop")
                             /\ client' = [client EXCEPT !.send_mutex = t]
                             /\ written' = written
           /\ GetLeave(t) => /\ caller[t].at = "unlock" /\ caller'[t].at = "idle"
                             /\ client' = [client EXCEPT !.send_mutex = NoOne]
                             /\ written' = written
           /\ GetPop(t) => /\ caller[t].at = "getpop" /\ caller'[t].at = "idle"
                           /\ client' = client /\ written' = written
           /\ Load(t) => /\ caller[t].at = "load" /\ caller'[t].at = "store"
                         /\ caller'[t].copy = client.snd_frame_cnt
                         /\ client' = client /\ written' = written
           /\ Store(t) => /\ caller[t].at = "store" /\ caller'[t].at = "idle"
                          /\ client' = [client EXCEPT !.snd_frame_cnt = caller[t].copy + 1]
                          /\ written' = written
<1>1. caller \in [Callers -> [at : CallerPlaces, copy : Nat]]
    BY DEF IInv, Typed
<1>2. \A place : CallerGoes(t, place) => caller'[t].at = place
    BY <1>1 DEF CallerGoes
<1>3. /\ Call(t) => /\ caller[t].at = "idle" /\ caller'[t].at \in {"read", "get"}
                    /\ client' = client /\ written' = written
      /\ Write(t) => /\ caller[t].at = "idle"
                     /\ client' = client
                     /\ \/ caller'[t].at = "load" /\ written' = written + 1
                        \/ caller' = caller /\ written' = written
    BY <1>1, <1>2 DEF Call, Write, Idle, CallerGoes, CountedIfWritten, history
<1>4. /\ ReadEnter(t) => /\ caller[t].at = "read" /\ client.recv_mutex = NoOne
                         /\ caller'[t].at = (IF client.list # <<>> THEN "pop" ELSE "leave")
                         /\ client' = [client EXCEPT !.recv_mutex = t]
                         /\ written' = written
      /\ ReadPop(t) => /\ caller[t].at = "pop" /\ caller'[t].at = "leave"
                       /\ client' = [client EXCEPT !.list = Tail(@)]
                       /\ written' = written
      /\ ReadLeave(t) => /\ caller[t].at = "leave" /\ caller'[t].at = "idle"
                         /\ client' = [client EXCEPT !.recv_mutex = NoOne]
                         /\ written' = written
    BY <1>2 DEF ReadEnter, ReadPop, ReadLeave, CallerAt, history, FramesWait, WhenEmpty
<1>5. /\ GetEnter(t) => /\ caller[t].at = "get" /\ client.send_mutex = NoOne
                        /\ caller'[t].at = (IF client.list = <<>> THEN "unlock" ELSE "getpop")
                        /\ client' = [client EXCEPT !.send_mutex = t]
                        /\ written' = written
      /\ GetLeave(t) => /\ caller[t].at = "unlock" /\ caller'[t].at = "idle"
                        /\ client' = [client EXCEPT !.send_mutex = NoOne]
                        /\ written' = written
      /\ GetPop(t) => /\ caller[t].at = "getpop" /\ caller'[t].at = "idle"
                      /\ client' = client /\ written' = written
    BY <1>2 DEF GetEnter, GetLeave, GetPop, CallerAt, history
<1>6. /\ Load(t) => /\ caller[t].at = "load" /\ caller'[t].at = "store"
                    /\ caller'[t].copy = client.snd_frame_cnt
                    /\ client' = client /\ written' = written
      /\ Store(t) => /\ caller[t].at = "store" /\ caller'[t].at = "idle"
                     /\ client' = [client EXCEPT !.snd_frame_cnt = caller[t].copy + 1]
                     /\ written' = written
    BY <1>1 DEF Load, Store, CallerAt, history
<1> QED
    BY <1>3, <1>4, <1>5, <1>6

LEMMA CallerLocks ==
    ASSUME IInv, NEW t \in Callers, Caller(t)
    PROVE  Locks'
<1>1. /\ client # NoOne /\ client \in Clients /\ client' # NoOne /\ client' \in Clients
      /\ rcv' = rcv /\ opens' = opens
      /\ \A u \in Callers : u # t => caller'[u] = caller[u]
    BY CallerLeaves
<1>2. Queue' = Queue /\ Locks
    BY CallerQueue DEF IInv
<1>3. t # NoOne /\ t \notin Opens /\ NoOne \notin Callers /\ NoOne \notin Opens
      /\ Callers \cap Opens = {}
    BY Constants
<1>4. CASE Call(t)
    BY <1>1, <1>2, <1>3, <1>4, CallerMoves DEF Locks, Inside, SawFrame, CallerAt, At
<1>5. CASE Write(t)
    BY <1>1, <1>2, <1>3, <1>5, CallerMoves DEF Locks, Inside, SawFrame, CallerAt, At
<1>6. CASE ReadEnter(t)
    <2>1. /\ client'.recv_mutex = t /\ client'.send_mutex = client.send_mutex
          /\ client'.list = client.list
        BY <1>1, <1>6, CallerMoves DEF Clients
    <2> QED
        BY <1>1, <1>2, <1>3, <1>6, <2>1, CallerMoves DEF Locks, Inside, SawFrame, CallerAt, At
<1>7. CASE ReadPop(t)
    <2>1. /\ client'.recv_mutex = client.recv_mutex /\ client'.send_mutex = client.send_mutex
        BY <1>1, <1>7, CallerMoves DEF Clients
    <2>2. \A u \in Callers : u # t => caller[u].at # "pop"
        BY <1>1, <1>2, <1>7, CallerMoves DEF Locks, Inside
    <2> QED
        BY <1>1, <1>2, <1>3, <1>7, <2>1, <2>2, CallerMoves
        DEF Locks, Inside, SawFrame, CallerAt, At
<1>8. CASE ReadLeave(t)
    <2>1. /\ client'.recv_mutex = NoOne /\ client'.send_mutex = client.send_mutex
          /\ client'.list = client.list /\ client.recv_mutex = t
        BY <1>1, <1>2, <1>8, CallerMoves DEF Clients, Locks, Inside
    <2> QED
        BY <1>1, <1>2, <1>3, <1>8, <2>1, CallerMoves DEF Locks, Inside, SawFrame, CallerAt, At
<1>9. CASE GetEnter(t)
    <2>1. /\ client'.recv_mutex = client.recv_mutex /\ client'.send_mutex = t
          /\ client'.list = client.list
        BY <1>1, <1>9, CallerMoves DEF Clients
    <2>2. client.list # <<>> => Queue # <<>>
        <3>1. taken \in Seq(Frame) /\ client.list \in Seq(Frame)
            BY <1>1, ClientTyped DEF IInv, Typed
        <3> QED
            BY <3>1, ConcatSimplifications DEF Queue
    <2> QED
        BY <1>1, <1>2, <1>3, <1>9, <2>1, <2>2, CallerMoves
        DEF Locks, Inside, SawFrame, CallerAt, At
<1>10. CASE GetLeave(t)
    <2>1. /\ client'.recv_mutex = client.recv_mutex /\ client'.send_mutex = NoOne
          /\ client'.list = client.list /\ client.send_mutex = t
        BY <1>1, <1>2, <1>10, CallerMoves DEF Clients, Locks, Inside
    <2> QED
        BY <1>1, <1>2, <1>3, <1>10, <2>1, CallerMoves DEF Locks, Inside, SawFrame, CallerAt, At
<1>11. CASE GetPop(t)
    BY <1>1, <1>2, <1>3, <1>11, CallerMoves DEF Locks, Inside, SawFrame, CallerAt, At
<1>12. CASE Load(t)
    BY <1>1, <1>2, <1>3, <1>12, CallerMoves DEF Locks, Inside, SawFrame, CallerAt, At
<1>13. CASE Store(t)
    <2>1. /\ client'.recv_mutex = client.recv_mutex /\ client'.send_mutex = client.send_mutex
          /\ client'.list = client.list
        BY <1>1, <1>13, CallerMoves DEF Clients
    <2> QED
        BY <1>1, <1>2, <1>3, <1>13, <2>1, CallerMoves DEF Locks, Inside, SawFrame, CallerAt, At
<1> QED
    BY <1>4, <1>5, <1>6, <1>7, <1>8, <1>9, <1>10, <1>11, <1>12, <1>13 DEF Caller, InCall

LEMMA NextLocks ==
    ASSUME IInv, Next
    PROVE  Locks'
<1>1. ASSUME NEW f \in {"get", "read", "write"}, CallWithNull(f)
      PROVE  Locks'
    BY <1>1 DEF CallWithNull, Locks
<1>9. ASSUME NEW t \in Callers, WriteKills(t)
      PROVE  Locks'
    BY <1>9 DEF WriteKills, IInv, Locks, At, CallerAt, Inside, SawFrame, Queue, appVars, history
<1> QED
    BY <1>1, <1>9, ApplicationLocks, ReceiverLocks, CallerLocks DEF Next, Application

-----------------------------------------------------------------------------
(* Counters.                                                                *)

LEMMA ApplicationTally ==
    ASSUME IInv, OpenClient \/ (\E s \in OpenStages : OpenFails(s)) \/ CloseSocket \/ CloseFree
    PROVE  Tally'
<1>1. CASE OpenClient
    <2>1. /\ client'.list = <<>> /\ client'.frame_cnt = 0 /\ client'.frame_sem = 0
          /\ client'.snd_frame_cnt = 0 /\ taken' = <<>> /\ lost'.node = {} /\ written' = 0
          /\ caller' = caller /\ opens' = opens + 1
        BY <1>1 DEF OpenClient, NewClient
    <2>2. \A t \in Callers : caller[t].at = "idle"
        BY <1>1 DEF OpenClient, IInv, Placed, Idle
    <2>3. rcv'[opens + 1].at = "start"
        BY <1>1, ThreadStarted
    <2>4. Writing' = {}
        BY <2>1, <2>2 DEF Writing
    <2>5. Len(Queue') = 0
        BY <2>1 DEF Queue
    <2>6. /\ IsFiniteSet(lost'.node) /\ Cardinality(lost'.node) = 0
          /\ IsFiniteSet(Writing') /\ Cardinality(Writing') = 0
        BY <2>1, <2>4, FS_EmptySet
    <2>7. rcv'[opens'].at \notin {"leave", "post"}
        BY <2>1, <2>3
    <2> QED
        <3>1. client'.frame_cnt = Len(Queue') + Cardinality(lost'.node)
            BY <2>1, <2>5, <2>6
        <3>2. client'.frame_sem
                = client'.frame_cnt - (IF rcv'[opens'].at \in {"leave", "post"} THEN 1 ELSE 0)
            <4> DEFINE behind == IF rcv'[opens'].at \in {"leave", "post"} THEN 1 ELSE 0
            <4>1. behind = 0
                BY <2>7
            <4>2. client'.frame_sem = 0 /\ client'.frame_cnt = 0
                BY <2>1
            <4> HIDE DEF behind
            <4>3. client'.frame_sem = client'.frame_cnt - behind
                BY <4>1, <4>2
            <4> QED
                BY <4>3 DEF behind
        <3>3. client'.snd_frame_cnt + Cardinality(Writing') <= written'
            BY <2>1, <2>6
        <3>4. \A t \in Callers : caller'[t].at # "store"
            BY <2>1, <2>2
        <3>5. ~(written' > 0)
            BY <2>1
        <3> QED
            BY <2>6, <3>1, <3>2, <3>3, <3>4, <3>5 DEF Tally, CallerAt
<1>2. CASE \E s \in OpenStages : OpenFails(s)
    BY <1>2 DEF OpenFails, Tally
<1>3. CASE CloseSocket
    BY <1>3 DEF CloseSocket, IInv, Tally, CallerAt, Queue, Writing, history
<1>4. CASE CloseFree
    BY <1>4 DEF CloseFree, Tally
<1> QED
    BY <1>1, <1>2, <1>3, <1>4

LEMMA ReceiverTally ==
    ASSUME IInv, NEW g \in Opens, Receiver(g)
    PROVE  Tally'
<1>1. CASE UseFreed(g)
    BY <1>1 DEF UseFreed, IInv, Tally, CallerAt, Queue, Writing, appVars, history
<1>2. ASSUME ~UseFreed(g), client # NoOne
      PROVE  Tally'
    <2>1. /\ caller' = caller /\ opens' = opens /\ written' = written
          /\ client'.snd_frame_cnt = client.snd_frame_cnt
          /\ client \in Clients /\ client' \in Clients
          /\ \A h \in Opens : h # g => rcv'[h] = rcv[h]
        BY <1>2, ReceiverLeaves
    <2>2. Tally /\ Writing' = Writing
        BY <2>1 DEF IInv, Writing
    <2>3. opens \in Opens /\ client.frame_cnt \in Nat /\ client.frame_sem \in Nat
          /\ Len(Queue) \in Nat /\ Queue \in Seq(Frame)
        BY <1>2, ClientTyped DEF IInv, Placed
    <2>4. IsFiniteSet(lost.node) /\ Cardinality(lost.node) \in Nat
        BY <1>2, <2>2, FS_CardinalityType DEF Tally
    <2>5. /\ IsFiniteSet(lost'.node)
          /\ client'.frame_cnt = Len(Queue') + Cardinality(lost'.node)
        <3>1. CASE Insert(g)
            <4>1. CASE client'.list = client.list /\ Queue' = Queue
                           /\ lost'.node = lost.node \cup {rcv[g].frame}
                <5>1. rcv[g].frame \notin lost.node
                    BY <1>2 DEF IInv, Stream, InPlace
                <5>2. IsFiniteSet(lost'.node) /\ Cardinality(lost'.node) = Cardinality(lost.node) + 1
                    BY <2>4, <4>1, <5>1, FS_AddElement
                <5> QED
                    BY <1>2, <2>2, <2>3, <2>4, <3>1, <4>1, <5>2, InsertDoes DEF Tally
            <4>2. CASE Queue' = Append(Queue, rcv[g].frame) /\ lost' = lost
                <5>1. Len(Queue') = Len(Queue) + 1
                    BY <2>3, <3>1, <4>2, InsertDoes, AppendProperties
                <5> QED
                    BY <1>2, <2>2, <2>3, <2>4, <3>1, <4>2, <5>1, InsertDoes DEF Tally
            <4>3. \A s \in Seq(Frame) : Append(s, rcv[g].frame) # s
                <5>1. rcv[g].frame \in Frame
                    BY <3>1, InsertDoes
                <5> QED
                    BY <5>1, AppendProperties, LenProperties
            <4>4. client.list \in Seq(Frame)
                BY <2>1 DEF Clients
            <4> QED
                BY <1>2, <2>3, <3>1, <4>1, <4>2, <4>3, <4>4, InsertDoes, ReceiverQueue
        <3>2. CASE ~Insert(g)
            <4>1. Queue' = Queue
                BY <1>2, <3>2, ReceiverQueue
            <4>2. lost'.node = lost.node
                BY <1>2, <3>2 DEF Receiver, Start, ReadCall, ReadNothing, ReadBytes, FrameNew,
                       InsertLeave, Post, history, IInv, Typed
            <4>3. client'.frame_cnt = client.frame_cnt
                BY <1>2, <2>1, <3>2 DEF Receiver, Start, ReadCall, ReadNothing, ReadBytes,
                       FrameNew, InsertLeave, Post, Clients
            <4> QED
                BY <1>2, <2>2, <2>4, <4>1, <4>2, <4>3 DEF Tally
        <3> QED
            BY <3>1, <3>2
    <2>6. client'.frame_sem
            = client'.frame_cnt - (IF rcv'[opens].at \in {"leave", "post"} THEN 1 ELSE 0)
        <3>1. client.frame_sem
                = client.frame_cnt - (IF rcv[opens].at \in {"leave", "post"} THEN 1 ELSE 0)
            BY <1>2, <2>2 DEF Tally
        <3>2. CASE Insert(g)
            <4>1. /\ g = opens /\ client'.frame_cnt = client.frame_cnt + 1
                  /\ client'.frame_sem = client.frame_sem
                BY <3>2, InsertDoes
            <4>2. rcv[g].at = "lock" /\ rcv'[g].at = "leave"
                BY <3>2, ReceiverMoves DEF Moves, Insert, At
            <4> QED
                BY <2>3, <3>1, <4>1, <4>2
        <3>3. CASE InsertLeave(g)
            BY <2>1, <2>3, <3>1, <3>3, ReceiverMoves DEF Moves, InsertLeave, At, Alive, Clients
        <3>4. CASE Post(g)
            BY <2>1, <2>3, <3>1, <3>4, ReceiverMoves DEF Moves, Post, At, Alive, Clients
        <3>5. ASSUME ~Insert(g), ~InsertLeave(g), ~Post(g)
              PROVE  client' = client /\ rcv[g].at \notin {"leave", "post"}
                         /\ rcv'[g].at \notin {"leave", "post"}
            <4>1. client' = client /\ rcv[g].at \notin {"leave", "post"}
                BY <1>2, <3>5 DEF Receiver, Start, ReadCall, ReadNothing, ReadBytes, FrameNew, At
            <4>2. rcv'[g].at \notin {"leave", "post"}
                BY <1>2, <3>5, ReceiverMoves, ReadMoves DEF Receiver, Moves
            <4> QED
                BY <4>1, <4>2
        <3> QED
            <4>1. CASE g = opens
                BY <3>1, <3>2, <3>3, <3>4, <3>5, <4>1
            <4>2. CASE g # opens
                BY <2>1, <2>3, <3>1, <3>2, <3>3, <3>4, <3>5, <4>2
            <4> QED
                BY <4>1, <4>2
    <2> QED
        BY <1>2, <2>1, <2>2, <2>5, <2>6 DEF Tally, CallerAt
<1>3. CASE client = NoOne
    BY <1>1, <1>3, ReceiverLeaves DEF Tally
<1> QED
    BY <1>1, <1>2, <1>3

LEMMA CallerTally ==
    ASSUME IInv, NEW t \in Callers, Caller(t)
    PROVE  Tally'
<1>1. /\ client # NoOne /\ client \in Clients /\ client' # NoOne /\ client' \in Clients
      /\ rcv' = rcv /\ opens' = opens /\ lost' = lost
      /\ client'.frame_cnt = client.frame_cnt /\ client'.frame_sem = client.frame_sem
      /\ \A u \in Callers : u # t => caller'[u] = caller[u]
    BY CallerLeaves
<1>2. Queue' = Queue /\ Tally
    BY CallerQueue DEF IInv
<1>3. /\ IsFiniteSet(Writing) /\ Cardinality(Writing) \in Nat
      /\ client.snd_frame_cnt \in Nat /\ written \in Nat
      /\ \A u \in Callers : caller[u].copy \in Nat
    BY <1>1, <1>2, FS_CardinalityType, ClientTyped DEF Tally, IInv, Typed
<1>4. CASE Write(t) /\ caller' # caller
    <2>1. /\ caller[t].at = "idle" /\ caller'[t].at = "load" /\ written' = written + 1
          /\ client' = client
        BY <1>4, CallerMoves
    <2>2. Writing' = Writing \cup {t} /\ t \notin Writing
        BY <1>1, <2>1 DEF Writing
    <2>3. IsFiniteSet(Writing') /\ Cardinality(Writing') = Cardinality(Writing) + 1
        BY <1>3, <2>2, FS_AddElement
    <2>4. client'.snd_frame_cnt + Cardinality(Writing') <= written'
        BY <1>1, <1>2, <1>3, <2>1, <2>3 DEF Tally
    <2>5. ASSUME NEW u \in Callers, caller'[u].at = "store"
          PROVE  caller'[u].copy + Cardinality(Writing') <= written'
        <3>1. u # t /\ caller'[u] = caller[u]
            BY <1>1, <2>1, <2>5
        <3>2. caller[u].copy + Cardinality(Writing) <= written
            BY <1>1, <1>2, <2>5, <3>1 DEF Tally, CallerAt
        <3> QED
            BY <1>3, <2>1, <2>3, <3>1, <3>2
    <2> QED
        BY <1>1, <1>2, <2>2, <2>3, <2>4, <2>5 DEF Tally, CallerAt
<1>5. CASE Load(t)
    <2>1. /\ caller[t].at = "load" /\ caller'[t].at = "store" /\ written' = written
          /\ client' = client /\ caller'[t].copy = client.snd_frame_cnt
        BY <1>5, CallerMoves
    <2>2. Writing' = Writing
        BY <1>1, <2>1 DEF Writing
    <2> QED
        BY <1>1, <1>2, <1>3, <2>1, <2>2 DEF Tally, CallerAt
<1>6. CASE Store(t)
    <2>1. /\ caller[t].at = "store" /\ caller'[t].at = "idle" /\ written' = written
          /\ client'.snd_frame_cnt = caller[t].copy + 1
        BY <1>1, <1>3, <1>6, CallerMoves DEF Clients
    <2>2. Writing' = Writing \ {t} /\ t \in Writing
        BY <1>1, <2>1 DEF Writing
    <2>3. IsFiniteSet(Writing') /\ Cardinality(Writing') = Cardinality(Writing) - 1
        BY <1>3, <2>2, FS_RemoveElement
    <2>4. client'.snd_frame_cnt + Cardinality(Writing') <= written'
          /\ client'.snd_frame_cnt > 0
        <3>1. caller[t].copy + Cardinality(Writing) <= written
            BY <1>1, <1>2, <2>1 DEF Tally, CallerAt
        <3> QED
            BY <1>3, <2>1, <2>3, <3>1
    <2>5. ASSUME NEW u \in Callers, caller'[u].at = "store"
          PROVE  caller'[u].copy + Cardinality(Writing') <= written'
        <3>1. u # t /\ caller'[u] = caller[u]
            BY <1>1, <2>1, <2>5
        <3>2. caller[u].copy + Cardinality(Writing) <= written
            BY <1>1, <1>2, <2>5, <3>1 DEF Tally, CallerAt
        <3> QED
            BY <1>3, <2>1, <2>3, <3>1, <3>2
    <2> QED
        BY <1>1, <1>2, <2>3, <2>4, <2>5 DEF Tally, CallerAt
<1>7. ASSUME ~(Write(t) /\ caller' # caller), ~Load(t), ~Store(t)
      PROVE  Tally'
    <2>1. /\ caller[t].at \notin {"load", "store"} /\ caller'[t].at \notin {"load", "store"}
          /\ written' = written
        BY <1>7, CallerMoves DEF Caller, InCall
    <2>2. client'.snd_frame_cnt = client.snd_frame_cnt
        BY <1>1, <1>7, CallerMoves DEF Caller, InCall, Clients
    <2>3. Writing' = Writing
        BY <1>1, <2>1 DEF Writing
    <2> QED
        BY <1>1, <1>2, <2>1, <2>2, <2>3 DEF Tally, CallerAt
<1> QED
    BY <1>4, <1>5, <1>6, <1>7

LEMMA NextTally ==
    ASSUME IInv, Next
    PROVE  Tally'
<1>1. ASSUME NEW f \in {"get", "read", "write"}, CallWithNull(f)
      PROVE  Tally'
    BY <1>1 DEF CallWithNull, Tally
<1>9. ASSUME NEW t \in Callers, WriteKills(t)
      PROVE  Tally'
    BY <1>9 DEF WriteKills, IInv, Tally, CallerAt, Queue, Writing, appVars, history
<1> QED
    BY <1>1, <1>9, ApplicationTally, ReceiverTally, CallerTally DEF Next, Application

-----------------------------------------------------------------------------
(* Memory and sockets.                                                      *)

LEMMA HoldingCounted ==
    ASSUME Typed
    PROVE  /\ IsFiniteSet(Holding) /\ Cardinality(Holding) \in Nat
           /\ failed["send_list"] \in Nat /\ failed["connect"] \in Nat /\ failed["thread"] \in Nat
           /\ blocks \in Int /\ leaked \in Nat
<1>1. Opens = 1 .. MaxOpens /\ 1 \in Int /\ MaxOpens \in Int
    BY Constants
<1>2. IsFiniteSet(Opens) /\ Holding \in SUBSET Opens
    BY <1>1, FS_Interval DEF Holding
<1> QED
    BY <1>2, FS_Subset, FS_CardinalityType DEF Typed, Costly

\* A step that moves no thread to or from the place where it holds a frame's memory.
LEMMA HoldingKept ==
    ASSUME NEW g \in Opens, \A h \in Opens : h # g => rcv'[h] = rcv[h],
           rcv[g].at = "lock" <=> rcv'[g].at = "lock"
    PROVE  Holding' = Holding
BY DEF Holding, At

LEMMA ApplicationBooks ==
    ASSUME IInv, OpenClient \/ (\E s \in OpenStages : OpenFails(s)) \/ CloseSocket \/ CloseFree
    PROVE  Books'
<1>1. Memory /\ Sockets /\ Typed /\ opens \in Nat
    BY BooksAre, Constants DEF IInv, Typed
<1>2. IsFiniteSet(Used) /\ Cardinality(Used) \in Nat
    BY FdsCounted
<1>3. opens < MaxOpens /\ files' = Connected =>
          Cardinality(Used') = Cardinality(Used) + 1
    <2> SUFFICES ASSUME opens < MaxOpens, files' = Connected
                 PROVE  Cardinality(Used') = Cardinality(Used) + 1
        OBVIOUS
    <2>1. LowestFd \in Fds /\ files[LowestFd] = 0
        BY FdFree
    <2>2. files'[LowestFd] # 0 /\ \A fd \in Fds : fd # LowestFd => files'[fd] = files[fd]
        BY <1>1, <2>1, Constants DEF Connected, Typed
    <2> HIDE DEF LowestFd
    <2>3. Used' = Used \cup {LowestFd} /\ LowestFd \notin Used
        BY <2>1, <2>2 DEF Used
    <2> QED
        BY <1>2, <2>3, FS_AddElement
<1>4. CASE OpenClient
    <2>1. Holding' = Holding
        <3>1. opens + 1 \in Opens /\ rcv[opens + 1] = NoThread
            BY <1>1, <1>4, Constants DEF OpenClient, IInv, Placed
        <3>2. rcv' = [rcv EXCEPT ![opens + 1].at = "start"]
            BY <1>4 DEF OpenClient
        <3>3. rcv'[opens + 1].at = "start" /\ \A h \in Opens : h # opens + 1 => rcv'[h] = rcv[h]
            BY <1>1, <3>1, <3>2 DEF Typed, Thread
        <3> QED
            BY <3>1, <3>3, HoldingKept DEF NoThread
    <2>2. InClient' = 3 /\ InClient = 0
        <3>1. client' # NoOne /\ client'.list = <<>> /\ client = NoOne
            BY <1>4, FdFree, NewClientTyped DEF OpenClient, NewClient
        <3> QED
            BY <3>1 DEF InClient
    <2>3. OfClient' = 1 /\ OfClient = 0
        <3>1. client' # NoOne /\ client = NoOne /\ closing = FALSE /\ closing' = closing
            BY <1>4, FdFree, NewClientTyped DEF OpenClient, IInv, Typed, Placed
        <3> QED
            BY <3>1 DEF OfClient
    <2>4. Memory'
        <3>1. blocks' = blocks + 3 /\ leaked' = leaked /\ failed' = failed
            BY <1>4 DEF OpenClient
        <3> QED
            BY <1>1, <2>1, <2>2, <3>1, HoldingCounted DEF Memory
    <2>5. Sockets'
        BY <1>1, <1>2, <1>3, <1>4, <2>3, HoldingCounted, SMTT(30) DEF OpenClient, Sockets
    <2> QED
        BY <2>4, <2>5, BooksAreNext
<1>5. ASSUME NEW s \in OpenStages, OpenFails(s)
      PROVE  Books'
    <2>1. Holding' = Holding /\ InClient' = InClient /\ OfClient' = OfClient
        BY <1>5 DEF OpenFails, Holding, At, InClient, OfClient
    <2>2. /\ \A c \in Costly : failed'[c] = IF c = s THEN failed[c] + 1 ELSE failed[c]
          /\ leaked' = leaked /\ opens' = opens + 1 /\ opens < MaxOpens
          /\ blocks' = blocks + (IF s = "send_list" THEN 1 ELSE 0)
        BY <1>5 DEF OpenFails, BlocksLeft
    <2>3. Memory'
        <3>1. failed'["send_list"] = failed["send_list"] + (IF s = "send_list" THEN 1 ELSE 0)
            BY <1>1, <2>2, HoldingCounted DEF Costly
        <3> QED
            <4>1. InClient \in Int
                BY <1>1, ClientTyped DEF InClient
            <4>2. blocks = InClient + Cardinality(Holding) + failed["send_list"] + leaked
                BY <1>1 DEF Memory
            <4>3. blocks' = InClient' + Cardinality(Holding') + failed'["send_list"] + leaked'
                BY <1>1, <2>1, <2>2, <3>1, <4>1, <4>2, HoldingCounted
            <4> QED
                BY <4>3 DEF Memory
    <2>4. CASE s \in {"connect", "thread"}
        <3>1. Cardinality(Used') = Cardinality(Used) + 1
            BY <1>3, <1>5, <2>2, <2>4 DEF OpenFails, SocketLeft
        <3>2. failed'["connect"] + failed'["thread"] = failed["connect"] + failed["thread"] + 1
            BY <1>1, <2>2, <2>4, HoldingCounted DEF Costly
        <3>3. OfClient \in Nat /\ failed'["connect"] \in Nat /\ failed'["thread"] \in Nat
            BY <1>1, <2>2, HoldingCounted DEF OfClient, Costly
        <3>4. Sockets'
            BY <1>1, <1>2, <2>1, <2>2, <3>1, <3>2, <3>3, HoldingCounted DEF Sockets
        <3> QED
            BY <2>3, <3>4, BooksAreNext
    <2>5. CASE s \notin {"connect", "thread"}
        <3>1. Used' = Used
            BY <1>5, <2>5 DEF OpenFails, SocketLeft, Used
        <3>2. failed'["connect"] = failed["connect"] /\ failed'["thread"] = failed["thread"]
            BY <2>2, <2>5 DEF Costly
        <3>3. Sockets'
            BY <1>1, <1>2, <2>1, <2>2, <3>1, <3>2 DEF Sockets
        <3> QED
            BY <2>3, <3>3, BooksAreNext
    <2> QED
        BY <2>4, <2>5
<1>6. CASE CloseSocket
    <2>1. /\ client # NoOne /\ closing' = TRUE /\ closing = FALSE /\ client' = client
          /\ rcv' = rcv /\ blocks' = blocks /\ failed' = failed /\ leaked' = leaked
          /\ opens' = opens
        BY <1>1, <1>6 DEF CloseSocket, history, Typed
    <2>2. client.fd \in Fds /\ files[client.fd] = opens /\ opens # 0
        BY <1>1, <2>1, ClientTyped, Constants DEF IInv, Placed
    <2>3. Used' = Used \ {client.fd} /\ client.fd \in Used
        BY <1>1, <1>6, <2>2 DEF CloseSocket, Used, Typed
    <2>4. Cardinality(Used') = Cardinality(Used) - 1
        BY <1>2, <2>3, FS_RemoveElement
    <2>5. OfClient = 1 /\ OfClient' = 0 /\ InClient' = InClient /\ Holding' = Holding
        BY <2>1 DEF OfClient, InClient, Holding, At
    <2>6. Memory'
        BY <1>1, <2>1, <2>5 DEF Memory
    <2>7. Sockets'
        BY <1>1, <1>2, <2>1, <2>4, <2>5, HoldingCounted DEF Sockets
    <2> QED
        BY <2>6, <2>7, BooksAreNext
<1>7. CASE CloseFree
    <2>1. /\ client # NoOne /\ client' = NoOne /\ closing
          /\ rcv' = rcv /\ blocks' = blocks - 3 - 2 * Len(client.list)
          /\ failed' = failed /\ leaked' = leaked /\ opens' = opens /\ files' = files
        BY <1>1, <1>7 DEF CloseFree, history, IInv, Placed
    <2>2. OfClient = 0 /\ OfClient' = 0 /\ InClient' = 0 /\ Holding' = Holding /\ Used' = Used
          /\ InClient = 3 + 2 * Len(client.list)
        BY <2>1 DEF OfClient, InClient, Holding, At, Used
    <2>3. Memory'
        <3>1. Len(client.list) \in Nat
            BY <1>1, <2>1, ClientTyped
        <3>2. blocks = InClient + Cardinality(Holding) + failed["send_list"] + leaked
            BY <1>1 DEF Memory
        <3>3. blocks' = InClient' + Cardinality(Holding') + failed'["send_list"] + leaked'
            <4>1. blocks = 3 + 2 * Len(client.list) + Cardinality(Holding)
                              + failed["send_list"] + leaked
                BY <2>2, <3>2
            <4>2. Holding' = Holding /\ failed' = failed /\ leaked' = leaked /\ InClient' = 0
                  /\ blocks' = blocks - 3 - 2 * Len(client.list)
                BY <2>1, <2>2
            <4> DEFINE n == Len(client.list)
                       c == Cardinality(Holding)
                       l == failed["send_list"]
            <4>3. n \in Nat /\ c \in Nat /\ l \in Nat /\ leaked \in Nat
                BY <1>1, <3>1, HoldingCounted
            <4>4. blocks = 3 + 2 * n + c + l + leaked /\ blocks' = blocks - 3 - 2 * n
                BY <4>1, <4>2
            <4> HIDE DEF n, c, l
            <4>5. blocks' = c + l + leaked
                BY <4>3, <4>4
            <4>6. blocks' = 0 + c + l + leaked
                BY <4>3, <4>5
            <4> QED
                BY <4>2, <4>6 DEF c, l
        <3> QED
            BY <3>3 DEF Memory
    <2>4. Sockets'
        BY <1>1, <2>1, <2>2 DEF Sockets
    <2> QED
        BY <2>3, <2>4, BooksAreNext
<1> QED
    BY <1>4, <1>5, <1>6, <1>7

LEMMA ReceiverBooks ==
    ASSUME IInv, NEW g \in Opens, Receiver(g)
    PROVE  Books'
<1>1. Memory /\ Sockets /\ Typed
    BY BooksAre DEF IInv
<1>2. CASE UseFreed(g)
    <2>1. Memory' /\ Sockets'
        BY <1>1, <1>2 DEF UseFreed, Memory, Sockets, InClient, OfClient, Holding, Used, At,
               appVars, history
    <2> QED
        BY <2>1, BooksAreNext
<1>3. ASSUME ~UseFreed(g)
      PROVE  Books'
    <2>1. /\ UNCHANGED <<opens, closing, files, failed>>
          /\ client = NoOne <=> client' = NoOne
          /\ \A h \in Opens : h # g => rcv'[h] = rcv[h]
        BY <1>3, ReceiverLeaves
    <2>2. Sockets'
        BY <1>1, <2>1 DEF Sockets, OfClient, Used
    <2>3. /\ ~Insert(g) => InClient' = InClient
        BY <1>3, <2>1, ReceiverQueue DEF InClient
    <2>4. CASE FrameNew(g)
        <3>1. rcv[g].at = "count" /\ leaked' = leaked /\ ~Insert(g)
            BY <2>4 DEF FrameNew, At, Insert
        <3>2. CASE rcv'[g].at = "lock" /\ blocks' = blocks + 1
            <4>1. Holding' = Holding \cup {g} /\ g \notin Holding
                BY <2>1, <3>1, <3>2 DEF Holding, At
            <4>2. Cardinality(Holding') = Cardinality(Holding) + 1
                BY <1>1, <4>1, HoldingCounted, FS_AddElement
            <4>3. InClient \in Int
                BY <1>1, ClientTyped DEF InClient
            <4> QED
                BY <1>1, <2>1, <2>2, <2>3, <3>1, <3>2, <4>2, <4>3, HoldingCounted, BooksAreNext
                DEF Memory
        <3>3. CASE rcv'[g].at = "read" /\ blocks' = blocks
            <4>1. Holding' = Holding
                BY <2>1, <3>1, <3>3, HoldingKept
            <4> QED
                BY <1>1, <2>1, <2>2, <2>3, <3>1, <3>3, <4>1, BooksAreNext DEF Memory
        <3> QED
            BY <2>4, <3>2, <3>3, ReceiverMoves DEF Moves
    <2>5. CASE Insert(g)
        <3>1. rcv[g].at = "lock" /\ rcv'[g].at = "leave" /\ client # NoOne /\ client' # NoOne
            BY <2>1, <2>5, InsertDoes, ReceiverMoves DEF Insert, At, Moves
        <3>2. Holding' = Holding \ {g} /\ g \in Holding
            BY <2>1, <3>1 DEF Holding, At
        <3>3. Cardinality(Holding') = Cardinality(Holding) - 1
            BY <1>1, <3>2, HoldingCounted, FS_RemoveElement
        <3>4. \/ blocks' = blocks + 1 /\ leaked' = leaked /\ Len(client'.list) = Len(client.list) + 1
              \/ blocks' = blocks /\ leaked' = leaked + 1 /\ Len(client'.list) = Len(client.list)
            <4>1. client.list \in Seq(Frame) /\ rcv[g].frame \in Frame
                BY <1>1, <2>5, <3>1, ClientTyped, InsertDoes
            <4>2. Len(Append(client.list, rcv[g].frame)) = Len(client.list) + 1
                BY <4>1, AppendProperties
            <4> QED
                BY <2>5, <4>2, InsertDoes
        <3>5. InClient = 3 + 2 * Len(client.list) /\ InClient' = 3 + 2 * Len(client'.list)
              /\ Len(client.list) \in Nat
            BY <1>1, <3>1, ClientTyped DEF InClient
        <3>6. Memory'
            <4>1. blocks = InClient + Cardinality(Holding) + failed["send_list"] + leaked
                BY <1>1 DEF Memory
            <4>2. failed' = failed
                BY <2>1
            <4>3. blocks' = InClient' + Cardinality(Holding') + failed'["send_list"] + leaked'
                <5>1. blocks = 3 + 2 * Len(client.list) + Cardinality(Holding)
                                  + failed["send_list"] + leaked
                    BY <3>5, <4>1
                <5>2. blocks' = 3 + 2 * Len(client'.list) + Cardinality(Holding')
                                   + failed["send_list"] + leaked'
                    <6> DEFINE n == Len(client.list)
                               m == Len(client'.list)
                               c == Cardinality(Holding)
                               d == Cardinality(Holding')
                               l == failed["send_list"]
                    <6>1. /\ n \in Nat /\ c \in Nat /\ l \in Nat /\ leaked \in Nat
                          /\ blocks = 3 + 2 * n + c + l + leaked /\ d = c - 1
                        BY <1>1, <3>3, <3>5, <5>1, HoldingCounted
                    <6>2. \/ blocks' = blocks + 1 /\ leaked' = leaked /\ m = n + 1
                          \/ blocks' = blocks /\ leaked' = leaked + 1 /\ m = n
                        BY <3>4
                    <6> HIDE DEF n, m, c, d, l
                    <6>3. blocks' = 3 + 2 * m + d + l + leaked'
                        BY <6>1, <6>2
                    <6> QED
                        BY <6>3 DEF m, d, l
                <5> QED
                    BY <3>5, <4>2, <5>2
            <4> QED
                BY <4>3 DEF Memory
        <3> QED
            BY <2>2, <3>6, BooksAreNext
    <2>6. ASSUME ~FrameNew(g), ~Insert(g)
          PROVE  Books'
        <3>1. rcv[g].at # "lock" /\ blocks' = blocks /\ leaked' = leaked
            BY <1>3, <2>6 DEF Receiver, Start, ReadCall, ReadNothing, ReadBytes, InsertLeave, Post,
                   At, history
        <3>2. rcv'[g].at # "lock"
            BY <1>3, <2>6, ReceiverMoves, ReadMoves DEF Receiver, Moves
        <3>3. Holding' = Holding
            BY <2>1, <3>1, <3>2, HoldingKept
        <3> QED
            BY <1>1, <2>1, <2>2, <2>3, <2>6, <3>1, <3>3, BooksAreNext DEF Memory
    <2> QED
        BY <2>4, <2>5, <2>6
<1> QED
    BY <1>2, <1>3

LEMMA CallerBooks ==
    ASSUME IInv, NEW t \in Callers, Caller(t)
    PROVE  Books'
<1>1. Memory /\ Sockets /\ Typed
    BY BooksAre DEF IInv
<1>2. /\ client # NoOne /\ client' # NoOne /\ client \in Clients
      /\ UNCHANGED <<opens, closing, files, rcv, leaked, failed>>
    BY CallerLeaves
<1>3. Sockets' /\ Holding' = Holding
    BY <1>1, <1>2 DEF Sockets, OfClient, Used, Holding, At
<1>4. blocks' - InClient' = blocks - InClient
    <2>1. InClient = 3 + 2 * Len(client.list) /\ InClient' = 3 + 2 * Len(client'.list)
          /\ Len(client.list) \in Nat /\ blocks \in Int
        BY <1>1, <1>2, ClientTyped DEF InClient, Typed
    <2>2. CASE ReadPop(t)
        <3>1. Len(client'.list) = Len(client.list) - 1 /\ blocks' = blocks - 2
            BY <2>2, CallerQueue
        <3> QED
            BY <2>1, <3>1
    <2>3. CASE ~ReadPop(t)
        <3>1. client'.list = client.list /\ blocks' = blocks
            BY <2>3, CallerQueue
        <3> QED
            BY <2>1, <3>1
    <2> QED
        BY <2>2, <2>3
<1>5. InClient \in Int /\ InClient' \in Int /\ blocks' \in Int
    <2>1. Typed'
        BY CallerTyped
    <2>2. client'.list \in Seq(Frame)
        BY CallerLeaves DEF Clients
    <2> QED
        BY <1>1, <1>2, <2>1, <2>2, ClientTyped, LenProperties DEF InClient, Typed
<1>6. Memory'
    BY <1>1, <1>2, <1>3, <1>4, <1>5, HoldingCounted DEF Memory
<1> QED
    BY <1>3, <1>6, BooksAreNext

LEMMA NextBooks ==
    ASSUME IInv, Next
    PROVE  Books'
<1>1. ASSUME NEW f \in {"get", "read", "write"}, CallWithNull(f)
      PROVE  Books'
    <2>1. Memory' /\ Sockets'
        BY <1>1, BooksAre DEF IInv, CallWithNull, Memory, Sockets, InClient, OfClient, Holding,
               Used, At, appVars, history
    <2> QED
        BY <2>1, BooksAreNext
<1>9. ASSUME NEW t \in Callers, WriteKills(t)
      PROVE  Books'
    <2>1. Memory' /\ Sockets'
        BY <1>9, BooksAre DEF IInv, WriteKills, Memory, Sockets, InClient, OfClient, Holding,
               Used, At, appVars, history
    <2> QED
        BY <2>1, BooksAreNext
<1> QED
    BY <1>1, <1>9, ApplicationBooks, ReceiverBooks, CallerBooks DEF Next, Application

-----------------------------------------------------------------------------
(* The stream of frames.                                                    *)

\* A multiple of the length of a frame, and what comes after it.
LEMMA Multiples ==
    ASSUME NEW L \in Nat \ {0}, NEW p \in Nat, p % L = 0
    PROVE  (p + 1) % L = 1 % L /\ (p + L) % L = 0
<1>1. \E q \in Nat : p = q * L
    OBVIOUS
<1>2. PICK q \in Nat : p = q * L
    BY <1>1
<1>3. p + L = (q + 1) * L
    BY <1>2
<1> QED
    BY <1>2, <1>3

\* A frame right behind them fills the stream further.
LEMMA FilledMore ==
    ASSUME NEW A \in SUBSET Frame, NEW p \in Nat, Filled(A, p),
           NEW n \in Nat, n > 0, n <= FrameLen,
           NEW f \in Frame, f.from = p + 1, f.upto = p + n
    PROVE  Filled(A \cup {f}, p + n)
<1>1. \A e \in A : /\ e.from \in Nat /\ e.upto \in Nat /\ e.from <= e.upto /\ e.upto <= p
                   /\ e.from < f.from
    BY Constants DEF Filled
<1>2. \A e \in A \cup {f} : e.from <= e.upto /\ e.upto <= p + n
    BY <1>1
<1>3. \A d, e \in A \cup {f} : d = e \/ Apart(d, e)
    BY <1>1 DEF Filled, Apart
<1>4. ASSUME NEW b \in 1 .. p + n
      PROVE  \E e \in A \cup {f} : b \in Bytes(e)
    <2>1. CASE b <= p
        BY <1>4, <2>1 DEF Filled
    <2>2. CASE b > p
        BY <1>4, <2>2 DEF Bytes
    <2> QED
        BY <2>1, <2>2
<1>5. ASSUME \A e \in A : Whole(e)
      PROVE  p % FrameLen = 0 /\ (p + 1) % FrameLen = 1 % FrameLen /\ (p + FrameLen) % FrameLen = 0
    BY <1>5, Multiples, Constants DEF Filled
<1>6. \A e \in A \cup {f} : Aligned(e.from) \/ \E d \in A \cup {f} : d.from < e.from /\ ~Whole(d)
    BY <1>1, <1>5 DEF Filled, Aligned
<1>7. (p + n) % FrameLen = 0 \/ \E e \in A \cup {f} : ~Whole(e)
    <2>1. n # FrameLen => ~Whole(f)
        BY Constants DEF Whole
    <2> QED
        BY <1>5, <2>1
<1> QED
    BY <1>2, <1>3, <1>4, <1>6, <1>7 DEF Filled

\* What is in the threads' hands after one of them has moved.
LEMMA HeldThen ==
    ASSUME NEW g \in Opens, NEW x, rcv'[g].frame = x,
           \A h \in Opens : h # g => rcv'[h] = rcv[h]
    PROVE  /\ Held \subseteq Held' \cup {rcv[g].frame}
           /\ Held' \subseteq Held \cup {x}
           /\ x # NoFrame => x \in Held'
           /\ rcv[g].frame # NoFrame => rcv[g].frame \in Held
BY DEF Held

LEMMA FramesTyped ==
    ASSUME IInv, client # NoOne
    PROVE  /\ Queue \in Seq(Frame) /\ DOMAIN Queue = 1 .. Len(Queue) /\ Len(Queue) \in Nat
           /\ InQueue \subseteq Frame /\ Mine \subseteq Frame /\ All \subseteq Frame
           /\ Held \subseteq Frame /\ pos \in Nat /\ opens \in Opens
           /\ lost.frame \subseteq Frame /\ lost.node \subseteq Frame
<1>1. Queue \in Seq(Frame) /\ DOMAIN Queue = 1 .. Len(Queue) /\ Len(Queue) \in Nat
    BY ClientTyped, LenProperties DEF IInv
<1>2. InQueue \subseteq Frame
    BY <1>1 DEF InQueue
<1>3. Held \subseteq Frame
    BY ThreadTyped DEF IInv, Held
<1>4. lost.frame \subseteq Frame /\ lost.node \subseteq Frame
    BY DEF IInv, Typed
<1>5. pos \in Nat /\ opens \in Opens
    BY Constants DEF IInv, Typed, Placed
<1> QED
    BY <1>1, <1>2, <1>3, <1>4, <1>5 DEF Mine, All

\* Steps that leave the frames where they are.
LEMMA StreamKept ==
    ASSUME IInv, client # NoOne, Queue' = Queue, lost' = lost, opens' = opens, pos' = pos,
           \A h \in Opens : rcv'[h].frame = rcv[h].frame
    PROVE  Stream'
<1>1. Held' = Held
    BY DEF Held
<1>2. InQueue' = InQueue
    BY DEF InQueue
<1>3. Mine' = Mine /\ All' = All
    BY <1>1, <1>2 DEF Mine, All
<1>4. Filled(All, pos) /\ InPlace /\ opens \in Opens
    BY FramesTyped DEF IInv, Stream
<1>5. Filled(All, pos)'
    BY <1>3, <1>4 DEF Filled
<1>6. InPlace'
    BY <1>2, <1>4 DEF InPlace
<1> QED
    BY <1>5, <1>6 DEF Stream

\* A frame for which there was no memory, or no node, is still in one place.
LEMMA StreamLost ==
    ASSUME IInv, NEW g \in Opens, client # NoOne, g = opens, rcv[g].frame \in Frame,
           rcv'[g].frame = NoFrame, \A h \in Opens : h # g => rcv'[h] = rcv[h],
           Queue' = Queue, opens' = opens, pos' = pos,
           lost'.frame \cup lost'.node = lost.frame \cup lost.node \cup {rcv[g].frame}
    PROVE  Stream'
<1>1. /\ Filled(All, pos) /\ InPlace /\ opens \in Opens /\ InQueue \subseteq Frame
      /\ lost.frame \subseteq Frame /\ lost.node \subseteq Frame
    BY FramesTyped DEF IInv, Stream
<1>2. rcv[g].frame.conn = opens /\ rcv[g].frame # NoFrame
    BY Constants DEF IInv, Placed
<1>3. InQueue' = InQueue
    BY DEF InQueue
<1>4. Mine' = Mine
    <2>1. Held \subseteq Held' \cup {rcv[g].frame} /\ Held' \subseteq Held \cup {NoFrame}
          /\ rcv[g].frame \in Held /\ NoFrame \notin Held'
        BY <1>2, HeldThen DEF Held
    <2> QED
        BY <1>2, <2>1 DEF Mine
<1>5. All' = All
    BY <1>3, <1>4 DEF All
<1>6. Filled(All, pos)'
    BY <1>1, <1>5 DEF Filled
<1>7. InPlace'
    <2>1. rcv[g].frame \notin InQueue
        BY <1>1 DEF InPlace
    <2>2. /\ \A f \in InQueue' \cup lost'.frame \cup lost'.node : f.conn = opens'
          /\ InQueue' \cap (lost'.frame \cup lost'.node) = {}
        BY <1>1, <1>2, <1>3, <2>1 DEF InPlace
    <2>3. \A h \in Opens : rcv'[h].frame \notin InQueue' \cup lost'.frame \cup lost'.node
        <3>1. NoFrame \notin InQueue \cup lost.frame \cup lost.node \cup {rcv[g].frame}
            BY <1>1, Constants
        <3>2. \A h \in Opens : h # g => rcv[h].frame # rcv[g].frame
            BY <1>1, <1>2 DEF InPlace
        <3> QED
            BY <1>1, <1>3, <3>1, <3>2 DEF InPlace
    <2>4. \A h, k \in Opens :
              rcv'[h].frame = rcv'[k].frame /\ rcv'[h].frame.conn = opens' => h = k
        <3>1. NoFrame.conn # opens
            BY <1>1, Constants
        <3> QED
            BY <1>1, <3>1 DEF InPlace
    <2> QED
        BY <1>1, <2>2, <2>3, <2>4 DEF InPlace
<1> QED
    BY <1>6, <1>7 DEF Stream

\* A frame that is queued comes after those that are in the queue.
LEMMA StreamQueued ==
    ASSUME IInv, NEW g \in Opens, client # NoOne, g = opens, rcv[g].frame \in Frame,
           rcv'[g].frame = NoFrame, \A h \in Opens : h # g => rcv'[h] = rcv[h],
           Queue' = Append(Queue, rcv[g].frame), opens' = opens, pos' = pos, lost' = lost
    PROVE  Stream'
<1> DEFINE f == rcv[g].frame
<1>1. /\ Filled(All, pos) /\ InPlace /\ opens \in Opens /\ InQueue \subseteq Frame
      /\ lost.frame \subseteq Frame /\ lost.node \subseteq Frame
      /\ Queue \in Seq(Frame) /\ DOMAIN Queue = 1 .. Len(Queue) /\ Len(Queue) \in Nat
    BY FramesTyped DEF IInv, Stream
<1>2. f.conn = opens /\ f # NoFrame /\ f \in Frame
    BY Constants DEF IInv, Placed
<1>3. /\ DOMAIN Queue' = 1 .. Len(Queue) + 1
      /\ \A i \in 1 .. Len(Queue) : Queue'[i] = Queue[i]
      /\ Queue'[Len(Queue) + 1] = f
    <2>1. /\ Append(Queue, f) \in Seq(Frame) /\ Len(Append(Queue, f)) = Len(Queue) + 1
          /\ \A i \in 1 .. Len(Queue) : Append(Queue, f)[i] = Queue[i]
          /\ Append(Queue, f)[Len(Queue) + 1] = f
        BY <1>1, AppendProperties
    <2>2. DOMAIN Append(Queue, f) = 1 .. Len(Append(Queue, f))
        BY <2>1, LenProperties
    <2> QED
        BY <2>1, <2>2
<1>4. InQueue' = InQueue \cup {f}
    <2>1. InQueue' \subseteq InQueue \cup {f}
        BY <1>1, <1>3 DEF InQueue
    <2>2. InQueue \cup {f} \subseteq InQueue'
        BY <1>1, <1>3 DEF InQueue
    <2> QED
        BY <2>1, <2>2
<1>5. All' = All
    <2>1. Held \subseteq Held' \cup {f} /\ Held' \subseteq Held \cup {NoFrame}
          /\ f \in Held /\ NoFrame \notin Held'
        BY <1>2, HeldThen DEF Held
    <2>2. Mine \subseteq Mine' \cup {f} /\ Mine' \subseteq Mine /\ f \in Mine
        BY <1>2, <2>1 DEF Mine
    <2> QED
        BY <1>4, <2>2 DEF All
<1> HIDE DEF f
<1>6. Filled(All, pos)'
    BY <1>1, <1>5 DEF Filled
<1>7. InPlace'
    <2>1. \A i \in 1 .. Len(Queue) : Queue[i].upto < f.from
        BY <1>1, <1>2 DEF InPlace, f
    <2>2. \A i, j \in DOMAIN Queue' : i < j => Queue'[i].upto < Queue'[j].from
        BY <1>1, <1>3, <2>1 DEF InPlace
    <2>3. \A h \in Opens : h # g => rcv[h].frame # f
        BY <1>1, <1>2 DEF InPlace, f
    <2>4. f \notin lost.frame \cup lost.node
        BY <1>1 DEF InPlace, f
    <2>5. /\ \A e \in InQueue' \cup lost'.frame \cup lost'.node : e.conn = opens'
          /\ InQueue' \cap (lost'.frame \cup lost'.node) = {}
        BY <1>1, <1>2, <1>4, <2>4 DEF InPlace
    <2>6. \A h \in Opens : rcv'[h].frame \notin InQueue' \cup lost'.frame \cup lost'.node
        <3>1. NoFrame \notin InQueue \cup lost.frame \cup lost.node \cup {f}
            BY <1>1, <1>2, Constants
        <3> QED
            BY <1>1, <1>4, <2>3, <3>1 DEF InPlace
    <2>7. \A h, k \in Opens :
              rcv'[h].frame = rcv'[k].frame /\ rcv'[h].frame.conn = opens' => h = k
        <3>1. NoFrame.conn # opens
            BY <1>1, Constants
        <3> QED
            BY <1>1, <3>1 DEF InPlace
    <2> QED
        BY <1>1, <2>2, <2>5, <2>6, <2>7 DEF InPlace
<1> QED
    BY <1>6, <1>7 DEF Stream

\* A read from this client's connection, by its thread or an earlier one's, takes up
\* where the last one ended.
LEMMA StreamRead ==
    ASSUME IInv, NEW g \in Opens, client # NoOne, ReadBytes(g)
    PROVE  Stream'
<1>1. PICK n \in Nat, before \in Nat, f \in Frame :
          /\ n > 0 /\ n <= FrameLen
          /\ before = (IF rcv[g].conn = opens THEN pos ELSE 0)
          /\ before + n <= MaxBytes
          /\ pos' = (IF rcv[g].conn = opens THEN pos + n ELSE pos)
          /\ f.from = before + 1 /\ f.upto = before + n /\ f.conn = rcv[g].conn
          /\ Moves(g, "count", rcv[g].fd, 0, f)
    BY ReadMoves
<1>2. /\ Filled(All, pos) /\ InPlace /\ opens \in Opens /\ pos \in Nat
      /\ InQueue \subseteq Frame /\ All \subseteq Frame /\ Mine \subseteq Frame
      /\ Queue \in Seq(Frame) /\ DOMAIN Queue = 1 .. Len(Queue) /\ Len(Queue) \in Nat
      /\ lost.frame \subseteq Frame /\ lost.node \subseteq Frame
    BY FramesTyped DEF IInv, Stream
<1>3. rcv[g].frame = NoFrame
    BY DEF ReadBytes, At, IInv, Placed
<1>4. /\ Queue' = Queue /\ lost' = lost /\ opens' = opens
      /\ \A h \in Opens : h # g => rcv'[h] = rcv[h]
      /\ rcv'[g].frame = f /\ f # NoFrame
    <2>1. Receiver(g) /\ ~Insert(g) /\ ~UseFreed(g)
        BY DEF Receiver, ReadBytes, Insert, UseFreed, UsesClient, Inserting, At
    <2>2. Queue' = Queue
        BY <2>1, ReceiverQueue
    <2> QED
        BY <1>1, <2>2, Constants DEF ReadBytes, Moves, appVars
<1>5. InQueue' = InQueue
    BY <1>4 DEF InQueue
<1>6. Held \subseteq Held' \cup {NoFrame} /\ Held' \subseteq Held \cup {f} /\ f \in Held'
      /\ NoFrame \notin Held
    BY <1>3, <1>4, HeldThen DEF Held
<1>7. CASE f.conn = opens
    <2>1. Mine' = Mine \cup {f}
        BY <1>4, <1>6, <1>7 DEF Mine
    <2>2. All' = All \cup {f} /\ pos' = pos + n /\ f.from = pos + 1 /\ f.upto = pos + n
        BY <1>1, <1>5, <1>7, <2>1 DEF All
    <2>3. Filled(All, pos)'
        <3>1. Filled(All \cup {f}, pos + n)
            BY <1>1, <1>2, <2>2, FilledMore
        <3> QED
            BY <2>2, <3>1 DEF Filled
    <2>4. \A e \in All : e.upto < f.from
        BY <1>2, <2>2, Constants DEF Filled
    <2>5. f \notin All
        BY <1>1, <1>2, <2>2, <2>4
    <2>6. \A h \in Opens : h # g => rcv[h].frame # f
        <3>1. \A h \in Opens : rcv[h].frame = f => f \in Mine
            BY <1>4, <1>7 DEF Held, Mine
        <3> QED
            BY <2>5, <3>1 DEF All
    <2>7. f \notin InQueue \cup lost.frame \cup lost.node
        BY <1>7, <2>5 DEF All, Mine
    <2>8. \A i \in DOMAIN Queue : Queue[i].upto < f.from
        BY <2>4 DEF All, InQueue
    <2>9. InPlace'
        <3>1. /\ \A i, j \in DOMAIN Queue' : i < j => Queue'[i].upto < Queue'[j].from
              /\ \A e \in InQueue' \cup lost'.frame \cup lost'.node : e.conn = opens'
              /\ InQueue' \cap (lost'.frame \cup lost'.node) = {}
            BY <1>2, <1>4, <1>5 DEF InPlace
        <3>2. \A h \in Opens : rcv'[h].frame \notin InQueue' \cup lost'.frame \cup lost'.node
            BY <1>2, <1>4, <1>5, <2>7 DEF InPlace
        <3>3. \A h, k \in Opens :
                  rcv'[h].frame = rcv'[k].frame /\ rcv'[h].frame.conn = opens' => h = k
            BY <1>2, <1>4, <2>6 DEF InPlace
        <3>4. rcv'[opens'].frame # NoFrame =>
                  \A i \in DOMAIN Queue' : Queue'[i].upto < rcv'[opens'].frame.from
            BY <1>2, <1>4, <2>8 DEF InPlace
        <3> QED
            BY <3>1, <3>2, <3>3, <3>4 DEF InPlace
    <2> QED
        BY <2>3, <2>9 DEF Stream
<1>8. CASE f.conn # opens
    <2>1. Mine' = Mine /\ All' = All /\ pos' = pos
        <3>1. Mine' = Mine
            BY <1>4, <1>6, <1>8 DEF Mine
        <3> QED
            BY <1>1, <1>5, <1>8, <3>1 DEF All
    <2>2. g # opens
        BY <1>1, <1>8, Constants DEF IInv, Placed, ReadBytes, At
    <2>3. Filled(All, pos)'
        BY <1>2, <2>1 DEF Filled
    <2>4. f \notin InQueue \cup lost.frame \cup lost.node
        BY <1>2, <1>8 DEF InPlace
    <2>5. InPlace'
        <3>1. /\ \A i, j \in DOMAIN Queue' : i < j => Queue'[i].upto < Queue'[j].from
              /\ \A e \in InQueue' \cup lost'.frame \cup lost'.node : e.conn = opens'
              /\ InQueue' \cap (lost'.frame \cup lost'.node) = {}
            BY <1>2, <1>4, <1>5 DEF InPlace
        <3>2. \A h \in Opens : rcv'[h].frame \notin InQueue' \cup lost'.frame \cup lost'.node
            BY <1>2, <1>4, <1>5, <2>4 DEF InPlace
        <3>3. \A h, k \in Opens :
                  rcv'[h].frame = rcv'[k].frame /\ rcv'[h].frame.conn = opens' => h = k
            BY <1>2, <1>4, <1>8 DEF InPlace
        <3>4. rcv'[opens'].frame # NoFrame =>
                  \A i \in DOMAIN Queue' : Queue'[i].upto < rcv'[opens'].frame.from
            BY <1>2, <1>4, <2>2 DEF InPlace
        <3> QED
            BY <3>1, <3>2, <3>3, <3>4 DEF InPlace
    <2> QED
        BY <2>3, <2>5 DEF Stream
<1> QED
    BY <1>7, <1>8

LEMMA ApplicationStream ==
    ASSUME IInv, OpenClient \/ (\E s \in OpenStages : OpenFails(s)) \/ CloseSocket \/ CloseFree
    PROVE  Stream'
<1>1. CASE OpenClient
    <2>1. /\ client'.list = <<>> /\ taken' = <<>> /\ opens' = opens + 1 /\ pos' = 0
          /\ lost'.frame = {} /\ lost'.node = {} /\ opens \in Nat /\ opens + 1 \in Opens
          /\ rcv[opens + 1] = NoThread
        BY <1>1, Constants, SMTT(30) DEF OpenClient, NewClient, IInv, Typed, Placed
    <2>2. \A h \in Opens : rcv'[h].frame = rcv[h].frame
        <3>1. rcv' = [rcv EXCEPT ![opens + 1].at = "start"]
            BY <1>1 DEF OpenClient
        <3> QED
            BY <2>1, <3>1 DEF IInv, Typed, Thread
    <2>3. Queue' = <<>> /\ InQueue' = {} /\ DOMAIN Queue' = {}
        BY <2>1 DEF Queue, InQueue
    <2>4. \A h \in Opens : rcv'[h].frame.conn # opens + 1
        <3>1. Typed /\ Placed
            BY DEF IInv
        <3>2. \A h \in Opens : rcv[h].frame.conn <= opens /\ rcv[h].frame.conn \in Nat
            BY <3>1, ThreadTyped DEF Placed
        <3> QED
            BY <2>1, <2>2, <3>2
    <2>5. Mine' = {} /\ All' = {}
        BY <2>1, <2>3, <2>4 DEF Mine, Held, All
    <2>6. Filled(All, pos)'
        BY <2>1, <2>5, Constants DEF Filled
    <2>7. InPlace'
        BY <2>1, <2>2, <2>3, <2>4 DEF InPlace, NoThread
    <2> QED
        BY <2>6, <2>7 DEF Stream
<1>2. CASE \E s \in OpenStages : OpenFails(s)
    BY <1>2 DEF OpenFails, Stream
<1>3. CASE CloseSocket
    <2>1. /\ client # NoOne /\ Queue' = Queue /\ lost' = lost /\ opens' = opens /\ pos' = pos
          /\ rcv' = rcv
        BY <1>3 DEF CloseSocket, Queue, history
    <2> QED
        BY <2>1, StreamKept
<1>4. CASE CloseFree
    BY <1>4 DEF CloseFree, Stream
<1> QED
    BY <1>1, <1>2, <1>3, <1>4

LEMMA ReceiverStream ==
    ASSUME IInv, NEW g \in Opens, Receiver(g)
    PROVE  Stream'
<1>1. CASE client = NoOne
    <2>1. client' = NoOne
        BY <1>1, ReceiverLeaves DEF UseFreed
    <2> QED
        BY <2>1 DEF Stream
<1>2. CASE client # NoOne /\ UseFreed(g)
    BY <1>2, StreamKept DEF UseFreed, Queue, appVars, history
<1>3. CASE client # NoOne /\ ReadBytes(g)
    BY <1>3, StreamRead
<1>4. ASSUME client # NoOne, ~UseFreed(g), ~ReadBytes(g)
      PROVE  Stream'
    <2>1. /\ opens' = opens /\ pos' = pos
          /\ \A h \in Opens : h # g => rcv'[h] = rcv[h]
        BY <1>4, ReceiverLeaves DEF Receiver, Start, ReadCall, ReadNothing, FrameNew, Insert,
               InsertLeave, Post, history
    <2>2. CASE Insert(g)
        <3>1. /\ g = opens /\ rcv[g].frame \in Frame /\ rcv'[g].frame = NoFrame
              /\ client.list \in Seq(Frame)
            BY <1>4, <2>2, InsertDoes, ReceiverMoves, ClientTyped DEF Moves, IInv
        <3>2. CASE client'.list = client.list
            <4>1. Append(client.list, rcv[g].frame) # client.list
                BY <3>1, AppendProperties, LenProperties
            <4>2. Queue' = Queue
                BY <1>4, <2>2, <3>2, <4>1, ReceiverQueue
            <4>3. lost'.node = lost.node \cup {rcv[g].frame} /\ lost'.frame = lost.frame
                BY <2>2, <3>2, <4>1, InsertDoes
            <4> QED
                BY <1>4, <2>1, <3>1, <4>2, <4>3, StreamLost
        <3>3. CASE client'.list # client.list
            <4>1. Queue' = Append(Queue, rcv[g].frame) /\ lost' = lost
                BY <1>4, <2>2, <3>3, ReceiverQueue, InsertDoes
            <4> QED
                BY <1>4, <2>1, <3>1, <4>1, StreamQueued
        <3> QED
            BY <3>2, <3>3
    <2>3. ASSUME ~Insert(g)
          PROVE  Stream'
        <3>1. Queue' = Queue
            BY <1>4, <2>3, ReceiverQueue
        <3>2. CASE lost' = lost /\ rcv'[g].frame = rcv[g].frame
            BY <1>4, <2>1, <3>1, <3>2, StreamKept
        <3>3. CASE /\ FrameNew(g) /\ rcv'[g].frame = NoFrame
                   /\ lost' = [lost EXCEPT !.frame = @ \cup {rcv[g].frame}]
            <4>1. g = opens /\ rcv[g].frame \in Frame
                BY <3>3, ThreadTyped DEF FrameNew, Alive, At, IInv, Placed
            <4>2. lost'.frame = lost.frame \cup {rcv[g].frame} /\ lost'.node = lost.node
                BY <3>3 DEF IInv, Typed
            <4> QED
                BY <1>4, <2>1, <3>1, <3>3, <4>1, <4>2, StreamLost
        <3>4. FrameNew(g) \/ (lost' = lost /\ rcv'[g].frame = rcv[g].frame)
            BY <1>4, <2>3, ReceiverMoves
            DEF Moves, Receiver, Start, ReadCall, ReadNothing, InsertLeave, Post, history
        <3> QED
            BY <3>2, <3>3, <3>4, ReceiverMoves DEF Moves
    <2> QED
        BY <2>2, <2>3
<1> QED
    BY <1>1, <1>2, <1>3, <1>4

LEMMA NextStream ==
    ASSUME IInv, Next
    PROVE  Stream'
<1>1. ASSUME NEW f \in {"get", "read", "write"}, CallWithNull(f)
      PROVE  Stream'
    BY <1>1 DEF CallWithNull, Stream
<1>2. ASSUME NEW t \in Callers, Caller(t)
      PROVE  Stream'
    BY <1>2, CallerLeaves, CallerQueue, StreamKept
<1>9. ASSUME NEW t \in Callers, WriteKills(t)
      PROVE  Stream'
    BY <1>9, StreamKept DEF WriteKills, Queue, appVars, history
<1> QED
    BY <1>1, <1>9, <1>2, ApplicationStream, ReceiverStream DEF Next, Application

-----------------------------------------------------------------------------
(* The inductive invariant, and what follows.                               *)

LEMMA NextIInv == IInv /\ [Next]_vars => IInv'
<1> SUFFICES ASSUME IInv, [Next]_vars
             PROVE  IInv'
    OBVIOUS
<1>1. CASE Next
    BY <1>1, NextTyped, NextPlaced, NextLocks, NextTally, NextBooks, NextStream
    DEF IInv
<1>2. CASE UNCHANGED vars
    <2>1. Typed' /\ Placed'
        BY <1>2 DEF vars, appVars, history, IInv, Typed, Placed, At, Idle
    <2>2. Locks' /\ Tally'
        BY <1>2 DEF vars, appVars, history, IInv, Locks, Tally, At, CallerAt, Inside, SawFrame,
               Queue, Writing
    <2>3. Memory' /\ Sockets'
        BY <1>2, BooksAre DEF vars, appVars, history, IInv, Memory, Sockets, InClient, OfClient,
               Holding, Used, At
    <2>4. Stream'
        <3>1. CASE client # NoOne
            BY <1>2, <3>1, StreamKept DEF vars, appVars, history, Queue
        <3>2. CASE client = NoOne
            BY <1>2, <3>2 DEF vars, Stream
        <3> QED
            BY <3>1, <3>2
    <2> QED
        BY <2>1, <2>2, <2>3, <2>4, BooksAreNext DEF IInv
<1> QED
    BY <1>1, <1>2

\* Whatever callers, receive threads and the application do, and however they meet, the
\* inductive invariant holds.
THEOREM Inductive == Spec => []IInv
BY InitIInv, NextIInv, PTL DEF Spec

\* The client, the threads and the histories keep their types, and nobody frees more
\* memory than there was.
THEOREM TypeCorrect == Spec => []TypeOK
<1>1. IInv => TypeOK
    <2> SUFFICES ASSUME IInv PROVE TypeOK
        OBVIOUS
    <2>1. blocks \in Nat
        <3>1. blocks = InClient + Cardinality(Holding) + failed["send_list"] + leaked
            BY BooksAre DEF IInv, Memory
        <3>2. InClient \in Nat
            BY ClientTyped DEF IInv, InClient
        <3> QED
            BY <3>1, <3>2, HoldingCounted DEF IInv
    <2>2. ASSUME NEW g \in Opens
          PROVE  /\ rcv[g].at \in ThreadPlaces /\ rcv[g].frame \in Frame \cup {NoFrame}
                 /\ At(g, "count") => rcv[g].frame \in Frame
        BY ThreadTyped DEF IInv, Placed, At
    <2> QED
        BY <2>1, <2>2 DEF IInv, Typed, TypeOK, ThreadPlaces, CallerPlaces
<1> QED
    BY <1>1, Inductive, PTL

\* read_can_frame never returns with its mutex held, only its holder is between taking
\* and releasing it, and get_send_frame leaves its own locked only after a frame came.
THEOREM MutexesKept == Spec => []Locking
<1>1. IInv => Locking
    BY DEF IInv, Locks, Locking, Abandoned, SawFrame, Queue
<1> QED
    BY <1>1, Inductive, PTL

\* No frame waits unannounced, but for the one that is about to be announced.
\* snd_frame_cnt, whatever its callers' races lose, never exceeds what was written, and
\* is at least one once something was written and no call of write_can_frame is under way.
THEOREM CountsTrue == Spec => []Counted
<1>1. IInv => Counted
    <2> SUFFICES ASSUME IInv, client # NoOne PROVE Counted
        BY DEF Counted
    <2>1. Tally /\ IsFiniteSet(Writing) /\ Cardinality(Writing) \in Nat
          /\ client.snd_frame_cnt \in Nat /\ written \in Nat
        BY ClientTyped, FS_CardinalityType DEF IInv, Tally, Typed
    <2>2. client.snd_frame_cnt <= written
        BY <2>1 DEF Tally
    <2>3. (\A t \in Callers : caller[t].at \notin {"load", "store"}) => Writing = {}
        BY DEF Writing
    <2>4. Len(client.list)
             <= client.frame_sem + (IF rcv[opens].at \in {"leave", "post"} THEN 1 ELSE 0)
        <3>1. /\ Len(Queue) = Len(taken) + Len(client.list)
              /\ Len(taken) \in Nat /\ Len(client.list) \in Nat
              /\ client.frame_cnt \in Nat /\ client.frame_sem \in Nat
            BY ClientTyped, ConcatProperties DEF IInv, Typed, Queue
        <3>2. Cardinality(lost.node) \in Nat
            BY <2>1, FS_CardinalityType DEF Tally
        <3>3. Len(client.list) <= client.frame_cnt
            BY <2>1, <3>1, <3>2 DEF Tally
        <3> QED
            BY <2>1, <3>1, <3>3 DEF Tally
    <2> QED
        BY <2>1, <2>2, <2>3, <2>4 DEF Counted, Tally
<1> QED
    BY <1>1, Inductive, PTL

\* All memory and all sockets can be reached, but for those that the error paths of
\* open_client and of the insertion forget, which are exactly as many as they failed.
THEOREM AccountsBalance == Spec => []Accounted
<1>1. IInv => Accounted
    BY DEF IInv, Books
<1> QED
    BY <1>1, Inductive, PTL

\* Callers take the frames in the order of the stream; every byte received is in one
\* frame, and that frame in one place; frames are whole until a read was short.
THEOREM FramesDelivered == Spec => []Delivered
<1>1. IInv => Delivered
    <2> SUFFICES ASSUME IInv, client # NoOne PROVE Delivered
        BY DEF Delivered
    <2>1. /\ Filled(All, pos) /\ InPlace /\ All \subseteq Frame /\ InQueue \subseteq Frame
          /\ pos \in Nat /\ opens \in Opens
        BY FramesTyped DEF IInv, Stream
    <2>2. InQueue \cap Mine = {}
        BY <2>1 DEF InPlace, Mine, Held
    <2>3. ASSUME NEW b \in 1 .. pos
          PROVE  Cardinality({f \in All : b \in Bytes(f)}) = 1
        <3>1. PICK f \in All : b \in Bytes(f)
            BY <2>1 DEF Filled
        <3>2. ASSUME NEW e \in All, b \in Bytes(e)
              PROVE  e = f
            <4>1. e.from <= b /\ b <= e.upto /\ f.from <= b /\ b <= f.upto
                BY <3>1, <3>2 DEF Bytes
            <4>2. /\ e.from \in Nat /\ e.upto \in Nat /\ f.from \in Nat /\ f.upto \in Nat
                  /\ b \in Nat
                BY <2>1, Constants
            <4> QED
                BY <2>1, <4>1, <4>2 DEF Filled, Apart
        <3>3. {e \in All : b \in Bytes(e)} = {f}
            BY <3>1, <3>2
        <3> QED
            BY <3>3, FS_Singleton
    <2>4. \A f \in InQueue : Aligned(f.from) \/ \E e \in All : e.from < f.from /\ ~Whole(e)
        BY <2>1 DEF Filled, All
    <2>5. \A i, j \in DOMAIN Queue : i < j => Queue[i].upto < Queue[j].from
        BY <2>1 DEF InPlace
    <2> QED
        BY <2>2, <2>3, <2>4, <2>5 DEF Delivered, All, InQueue, Mine, Queue, Aligned
<1> QED
    BY <1>1, Inductive, PTL

\* The mutex that get_send_frame left locked is never released while the client lives.
THEOREM LockedForGood == Spec => StaysLocked
<1>1. ASSUME IInv, Next, Abandoned, client' # NoOne
      PROVE  Abandoned'
    <2>1. PICK t \in Callers : client.send_mutex = t /\ ~Inside(t, {"getpop", "unlock"})
        BY <1>1 DEF Abandoned
    <2>2. client # NoOne /\ t # NoOne
        BY <1>1, Constants DEF Abandoned
    <2>3. CASE \/ Application
               \/ \E v \in Callers : WriteKills(v)
               \/ \E f \in {"get", "read", "write"} : CallWithNull(f)
        <3>1. client' = client /\ caller' = caller
            BY <1>1, <2>2, <2>3 DEF Application, OpenClient, OpenFails, CloseSocket, CloseFree,
                   CallWithNull, WriteKills
        <3> QED
            BY <1>1, <2>1, <3>1 DEF Abandoned, Inside
    <2>4. ASSUME NEW g \in Opens, Receiver(g)
          PROVE  Abandoned'
        <3>1. client'.send_mutex = client.send_mutex /\ caller' = caller
            BY <1>1, <2>2, <2>4, ReceiverLeaves DEF UseFreed
        <3> QED
            BY <1>1, <2>1, <3>1 DEF Abandoned, Inside
    <2>5. ASSUME NEW u \in Callers, Caller(u)
          PROVE  Abandoned'
        <3>1. client \in Clients /\ \A v \in Callers : v # u => caller'[v] = caller[v]
            BY <1>1, <2>5, CallerLeaves
        <3>2. ~GetEnter(u)
            BY <1>1, <2>1, <2>2, CallerMoves
        <3>3. ~GetLeave(u)
            BY <1>1, <2>1, <2>2, CallerMoves DEF IInv, Locks, Inside
        <3>4. client'.send_mutex = client.send_mutex
            BY <1>1, <2>5, <3>1, <3>2, <3>3, CallerMoves DEF Caller, InCall, Clients
        <3>5. caller'[u].at \notin {"getpop", "unlock"} \/ u # t
            BY <1>1, <2>1, <2>5, <3>2, <3>3, CallerMoves DEF Caller, InCall, Inside
        <3> QED
            BY <1>1, <2>1, <3>1, <3>4, <3>5 DEF Abandoned, Inside
    <2> QED
        BY <1>1, <2>3, <2>4, <2>5 DEF Next
<1>2. IInv /\ [Next]_vars => [Abandoned /\ client' # NoOne => Abandoned']_vars
    BY <1>1
<1> QED
    BY <1>2, Inductive, PTL DEF Spec, StaysLocked

-----------------------------------------------------------------------------
(* What callers can tell from the frames they are handed.                   *)

Bytes13 == [1 .. 13 -> 0 .. 255]

\* The arithmetic of masks and shifts.
LEMMA MaskedRest ==
    ASSUME NEW x \in Nat, NEW M \in Nat \ {0}, x < M, NEW q \in Nat
    PROVE  (x + M * q) % M = x
BY SMT

LEMMA LowBits ==
    ASSUME NEW n \in Nat, n < 256
    PROVE  /\ n % 8 \in Nat /\ n % 8 < 8 /\ n % 32 \in Nat /\ n % 32 < 32
           /\ n % 128 \in Nat /\ n % 128 < 128
           /\ \E q \in Nat : n % 128 = (n % 32) + 32 * q
           /\ \E q \in Nat : n = (n % 8) + 8 * q
<1>1. n % 128 = (n % 32) + 32 * ((n % 128) \div 32) /\ (n % 128) \div 32 \in Nat
    BY SMT
<1>2. n = (n % 8) + 8 * (n \div 8) /\ n \div 8 \in Nat
    BY SMT
<1> QED
    BY <1>1, <1>2, SMT

LEMMA ExtendedNumber ==
    ASSUME NEW a \in Nat, NEW b \in Nat, NEW c \in Nat, NEW d \in Nat, NEW e \in Nat, NEW q \in Nat,
           a < 256, b < 256, c < 256, e < 32, d = e + 32 * q
    PROVE  (a + 256 * b + 65536 * c + 16777216 * d) % 536870912
               = a + 256 * b + 65536 * c + 16777216 * e
<1> DEFINE kept == a + 256 * b + 65536 * c + 16777216 * e
<1>1. kept \in Nat /\ kept < 536870912
    BY SMT
<1>2. a + 256 * b + 65536 * c + 16777216 * d = kept + 536870912 * q
    BY SMT
<1> HIDE DEF kept
<1>3. (kept + 536870912 * q) % 536870912 = kept
    BY <1>1, SMT
<1> QED
    BY <1>2, <1>3, SMT DEF kept

LEMMA StandardNumber ==
    ASSUME NEW a \in Nat, NEW b \in Nat, NEW c \in Nat, NEW d \in Nat, NEW e \in Nat, NEW q \in Nat,
           a < 256, e < 8, b = e + 8 * q
    PROVE  (a + 256 * b + 65536 * c + 16777216 * d) % 2048 = a + 256 * e
<1> DEFINE kept == a + 256 * e
           over == q + 32 * c + 8192 * d
<1>1. kept \in Nat /\ kept < 2048 /\ over \in Nat
    BY SMT
<1>2. a + 256 * b + 65536 * c + 16777216 * d = kept + 2048 * over
    BY SMT
<1> HIDE DEF kept, over
<1>3. (kept + 2048 * over) % 2048 = kept
    BY <1>1, SMT
<1> QED
    BY <1>2, <1>3, SMT DEF kept

\* The identifier as it is kept, byte for byte.
LEMMA MaskedBytes ==
    ASSUME NEW f \in Bytes13
    PROVE  /\ MaskedId(f) \in Seq(0 .. 255) /\ Len(MaskedId(f)) = 4
           /\ MaskedId(f)[1] \in 0 .. 255 /\ MaskedId(f)[2] \in 0 .. 255
           /\ MaskedId(f)[3] \in 0 .. 255 /\ MaskedId(f)[4] \in 0 .. 31
           /\ IdNumber(f) = MaskedId(f)[1] + 256 * MaskedId(f)[2] + 65536 * MaskedId(f)[3]
                                + 16777216 * MaskedId(f)[4]
<1>1. \A i \in 2 .. 5 : f[i] \in Nat /\ f[i] < 256
    BY SMTT(30) DEF Bytes13
<1> DEFINE a == f[2]
           b == f[3]
           c == f[4]
           d == f[5]
<1>2. /\ a \in Nat /\ b \in Nat /\ c \in Nat /\ d \in Nat
      /\ a < 256 /\ b < 256 /\ c < 256 /\ d < 256
    BY <1>1, SMT
<1>3. /\ Extended(f) =>
            /\ MaskedId(f) = <<a, b, c, d % 32>>
            /\ IdNumber(f) = (a + 256 * b + 65536 * c + 16777216 * (d % 128)) % 536870912
      /\ ~Extended(f) =>
            /\ MaskedId(f) = <<a, b % 8, 0, 0>>
            /\ IdNumber(f) = (a + 256 * b + 65536 * c + 16777216 * (d % 128)) % 2048
    <2>1. 2 ^ 29 = 536870912 /\ 2 ^ 11 = 2048
        BY SMT
    <2> QED
        BY <2>1, SMT DEF MaskedId, IdNumber
<1> HIDE DEF a, b, c, d
<1>4. CASE Extended(f)
    <2>1. PICK q \in Nat : d % 128 = (d % 32) + 32 * q
        BY <1>2, LowBits
    <2>2. d % 32 \in Nat /\ d % 32 < 32 /\ d % 128 \in Nat
        BY <1>2, LowBits
    <2> DEFINE e == d % 32
               g == d % 128
    <2> HIDE DEF e, g
    <2>3. (a + 256 * b + 65536 * c + 16777216 * g) % 536870912
            = a + 256 * b + 65536 * c + 16777216 * e
        BY <1>2, <2>1, <2>2, ExtendedNumber DEF e, g
    <2>4. IdNumber(f) = (a + 256 * b + 65536 * c + 16777216 * g) % 536870912
          /\ MaskedId(f) = <<a, b, c, e>>
        BY <1>3, <1>4, SMT DEF e, g
    <2>5. e \in 0 .. 31 /\ e \in 0 .. 255 /\ a \in 0 .. 255 /\ b \in 0 .. 255 /\ c \in 0 .. 255
        BY <1>2, <2>2, SMT DEF e
    <2> QED
        BY <2>3, <2>4, <2>5, SMT
<1>5. CASE ~Extended(f)
    <2>1. PICK q \in Nat : b = (b % 8) + 8 * q
        BY <1>2, LowBits
    <2>2. b % 8 \in Nat /\ b % 8 < 8 /\ d % 128 \in Nat
        BY <1>2, LowBits
    <2> DEFINE e == b % 8
               g == d % 128
    <2> HIDE DEF e, g
    <2>3. (a + 256 * b + 65536 * c + 16777216 * g) % 2048 = a + 256 * e
        BY <1>2, <2>1, <2>2, StandardNumber DEF e, g
    <2>4. IdNumber(f) = (a + 256 * b + 65536 * c + 16777216 * g) % 2048
          /\ MaskedId(f) = <<a, e, 0, 0>>
        BY <1>3, <1>5, SMT DEF e, g
    <2>5. e \in 0 .. 255 /\ a \in 0 .. 255 /\ a + 256 * e = a + 256 * e + 65536 * 0 + 16777216 * 0
        BY <1>2, <2>2, SMT DEF e
    <2> QED
        BY <2>3, <2>4, <2>5, SMT
<1> QED
    BY <1>4, <1>5, SMT

\* What callers get of a frame, byte for byte.
LEMMA ReadBytes13 ==
    ASSUME NEW f \in Bytes13
    PROVE  /\ ReadBack(f).head = MaskedId(f)[1]
           /\ \A i \in 1 .. 3 : ReadBack(f).can_id[i] = MaskedId(f)[i + 1]
           /\ ReadBack(f).can_id[4] = f[6]
           /\ \A i \in 1 .. 7 : ReadBack(f).known[i] = f[6 + i]
           /\ ReadBack(f).can_id \in Seq(0 .. 255) /\ Len(ReadBack(f).can_id) = 4
           /\ ReadBack(f).known \in Seq(0 .. 255) /\ Len(ReadBack(f).known) = 7
           /\ Data(f) \in Seq(0 .. 255) /\ Len(Data(f)) = 8
           /\ \A i \in 1 .. 8 : Data(f)[i] = f[i + 5]
<1> DEFINE block == MaskedId(f) \o Data(f)
<1>1. /\ Data(f) \in Seq(0 .. 255) /\ Len(Data(f)) = 8
      /\ \A i \in 1 .. 8 : Data(f)[i] = f[i + 5]
    <2>1. \A i \in 6 .. 13 : f[i] \in 0 .. 255
        BY DEF Bytes13
    <2>2. /\ SubSeq(f, 6, 13) \in Seq(0 .. 255)
          /\ Len(SubSeq(f, 6, 13)) = IF 6 <= 13 THEN 13 - 6 + 1 ELSE 0
          /\ \A i \in 1 .. 13 - 6 + 1 : SubSeq(f, 6, 13)[i] = f[6 + i - 1]
        BY <2>1, SubSeqProperties
    <2>3. \A i \in 1 .. 8 : 6 + i - 1 = i + 5
        OBVIOUS
    <2> QED
        BY <2>2, <2>3 DEF Data
<1>2. /\ block \in Seq(0 .. 255) /\ Len(block) = 12
      /\ \A i \in 1 .. 4 : block[i] = MaskedId(f)[i]
      /\ \A i \in 5 .. 12 : block[i] = f[i + 1]
    <2> DEFINE m == MaskedId(f)
               d == Data(f)
    <2>1. /\ m \in Seq(0 .. 255) /\ Len(m) = 4 /\ d \in Seq(0 .. 255) /\ Len(d) = 8
          /\ block = m \o d /\ \A i \in 1 .. 8 : d[i] = f[i + 5]
        BY <1>1, MaskedBytes
    <2> HIDE DEF m, d, block
    <2>2. /\ block \in Seq(0 .. 255) /\ Len(block) = 12
          /\ \A i \in 1 .. 12 : block[i] = IF i <= 4 THEN m[i] ELSE d[i - 4]
        <3>1. /\ m \o d \in Seq(0 .. 255) /\ Len(m \o d) = Len(m) + Len(d)
              /\ \A i \in 1 .. Len(m) + Len(d) : (m \o d)[i] = IF i <= Len(m) THEN m[i]
                                                               ELSE d[i - Len(m)]
            BY <2>1, ConcatProperties, ZenonT(60)
        <3>2. Len(m) + Len(d) = 12
            BY <2>1
        <3> QED
            BY <2>1, <3>1, <3>2
    <2>3. \A i \in 5 .. 12 : i - 4 \in 1 .. 8 /\ (i - 4) + 5 = i + 1 /\ ~(i <= 4)
        OBVIOUS
    <2>4. \A i \in 5 .. 12 : block[i] = f[i + 1]
        <3>1. \A i \in 5 .. 12 : block[i] = d[i - 4]
            BY <2>2
        <3>2. \A i \in 5 .. 12 : d[i - 4] = f[i + 1]
            BY <2>1, <2>3
        <3> QED
            BY <3>1, <3>2
    <2>5. \A i \in 1 .. 4 : block[i] = m[i]
        BY <2>2
    <2> QED
        BY <2>2, <2>4, <2>5 DEF m
<1>3. /\ ReadBack(f).head = block[1] /\ ReadBack(f).can_id = SubSeq(block, 2, 5)
      /\ ReadBack(f).known = SubSeq(block, 6, 12)
    BY DEF ReadBack
<1> HIDE DEF block
<1>4. \A i \in 1 .. 12 : block[i] \in 0 .. 255
    BY <1>2, ElementOfSeq
<1>5. /\ SubSeq(block, 2, 5) \in Seq(0 .. 255) /\ Len(SubSeq(block, 2, 5)) = 4
      /\ \A i \in 1 .. 4 : SubSeq(block, 2, 5)[i] = block[2 + i - 1]
    <2>1. \A i \in 2 .. 5 : block[i] \in 0 .. 255
        BY <1>4
    <2> QED
        BY <2>1, SubSeqProperties
<1>6. /\ SubSeq(block, 6, 12) \in Seq(0 .. 255) /\ Len(SubSeq(block, 6, 12)) = 7
      /\ \A i \in 1 .. 7 : SubSeq(block, 6, 12)[i] = block[6 + i - 1]
    <2>1. \A i \in 6 .. 12 : block[i] \in 0 .. 255
        BY <1>4
    <2> QED
        BY <2>1, SubSeqProperties
<1>7. \A i \in 1 .. 3 : SubSeq(block, 2, 5)[i] = MaskedId(f)[i + 1]
    BY <1>2, <1>5
<1>8. SubSeq(block, 2, 5)[4] = f[6]
    BY <1>2, <1>5
<1>9. \A i \in 1 .. 7 : SubSeq(block, 6, 12)[i] = f[6 + i]
    BY <1>2, <1>6
<1> QED
    BY <1>1, <1>2, <1>3, <1>5, <1>6, <1>7, <1>8, <1>9

LEMMA ReadToldApart ==
    ASSUME NEW f \in Bytes13, NEW g \in Bytes13
    PROVE  ReadBack(f) # ReadBack(g) <=> Told(f, g)
<1>1. IdNumber(f) = IdNumber(g) <=> \A i \in 1 .. 4 : MaskedId(f)[i] = MaskedId(g)[i]
    <2> DEFINE a == MaskedId(f)
               b == MaskedId(g)
    <2>1. /\ \A i \in 1 .. 4 : a[i] \in 0 .. 255 /\ b[i] \in 0 .. 255
          /\ IdNumber(f) = a[1] + 256 * a[2] + 65536 * a[3] + 16777216 * a[4]
          /\ IdNumber(g) = b[1] + 256 * b[2] + 65536 * b[3] + 16777216 * b[4]
        BY MaskedBytes
    <2> HIDE DEF a, b
    <2>2. IdNumber(f) = IdNumber(g) => a[1] = b[1] /\ a[2] = b[2] /\ a[3] = b[3] /\ a[4] = b[4]
        <3>1. /\ a[1] \in 0 .. 255 /\ a[2] \in 0 .. 255 /\ a[3] \in 0 .. 255 /\ a[4] \in 0 .. 255
              /\ b[1] \in 0 .. 255 /\ b[2] \in 0 .. 255 /\ b[3] \in 0 .. 255 /\ b[4] \in 0 .. 255
            BY <2>1
        <3>2. IdNumber(f) = IdNumber(g) =>
                  a[1] + 256 * a[2] + 65536 * a[3] + 16777216 * a[4]
                    = b[1] + 256 * b[2] + 65536 * b[3] + 16777216 * b[4]
            BY <2>1, SMT
        <3>3. a[1] + 256 * a[2] + 65536 * a[3] + 16777216 * a[4]
                = b[1] + 256 * b[2] + 65536 * b[3] + 16777216 * b[4]
              => a[1] = b[1] /\ a[2] = b[2] /\ a[3] = b[3] /\ a[4] = b[4]
            <4> DEFINE a1 == a[1]
                       a2 == a[2]
                       a3 == a[3]
                       a4 == a[4]
                       b1 == b[1]
                       b2 == b[2]
                       b3 == b[3]
                       b4 == b[4]
            <4> HIDE DEF a1, a2, a3, a4, b1, b2, b3, b4
            <4>1. /\ a1 \in 0 .. 255 /\ a2 \in 0 .. 255 /\ a3 \in 0 .. 255 /\ a4 \in 0 .. 255
                  /\ b1 \in 0 .. 255 /\ b2 \in 0 .. 255 /\ b3 \in 0 .. 255 /\ b4 \in 0 .. 255
                BY <3>1, SMT DEF a1, a2, a3, a4, b1, b2, b3, b4
            <4>2. a1 + 256 * a2 + 65536 * a3 + 16777216 * a4
                    = b1 + 256 * b2 + 65536 * b3 + 16777216 * b4
                  => a1 = b1 /\ a2 = b2 /\ a3 = b3 /\ a4 = b4
                BY <4>1, SMT
            <4> QED
                BY <4>2, SMT DEF a1, a2, a3, a4, b1, b2, b3, b4
        <3> QED
            BY <3>2, <3>3, SMT
    <2>3. (\A i \in 1 .. 4 : a[i] = b[i]) <=> a[1] = b[1] /\ a[2] = b[2] /\ a[3] = b[3] /\ a[4] = b[4]
        OBVIOUS
    <2> QED
        BY <2>1, <2>2, <2>3 DEF a, b
<1>2. Data(f) = Data(g) <=> \A i \in 6 .. 13 : f[i] = g[i]
    <2>1. (\A i \in 6 .. 13 : f[i] = g[i]) => \A i \in 1 .. 8 : Data(f)[i] = Data(g)[i]
        BY ReadBytes13, SMTT(30)
    <2>2. (\A i \in 1 .. 8 : Data(f)[i] = Data(g)[i]) => Data(f) = Data(g)
        <3>1. /\ Data(f) \in Seq(0 .. 255) /\ Len(Data(f)) = 8
              /\ Data(g) \in Seq(0 .. 255) /\ Len(Data(g)) = 8
            BY ReadBytes13
        <3> QED
            BY <3>1, SeqEqual
    <2>3. Data(f) = Data(g) => \A i \in 6 .. 13 : f[i] = g[i]
        <3>1. \A i \in 6 .. 13 : i - 5 \in 1 .. 8 /\ (i - 5) + 5 = i
            OBVIOUS
        <3>2. \A i \in 6 .. 13 : Data(f)[i - 5] = f[i] /\ Data(g)[i - 5] = g[i]
            BY <3>1, ReadBytes13
        <3> QED
            BY <3>2
    <2> QED
        BY <2>1, <2>2, <2>3
<1>3. ASSUME ReadBack(f) = ReadBack(g)
      PROVE  (\A i \in 1 .. 4 : MaskedId(f)[i] = MaskedId(g)[i]) /\ \A i \in 6 .. 13 : f[i] = g[i]
    <2>1. MaskedId(f)[1] = MaskedId(g)[1]
        BY <1>3, ReadBytes13
    <2>2. \A i \in 1 .. 3 : MaskedId(f)[i + 1] = MaskedId(g)[i + 1]
        <3>1. \A i \in 1 .. 3 : ReadBack(f).can_id[i] = MaskedId(f)[i + 1]
            BY ReadBytes13
        <3>2. \A i \in 1 .. 3 : ReadBack(g).can_id[i] = MaskedId(g)[i + 1]
            BY ReadBytes13
        <3> QED
            BY <1>3, <3>1, <3>2
    <2>3. f[6] = g[6]
        BY <1>3, ReadBytes13, SMTT(30)
    <2>4. \A i \in 1 .. 7 : f[6 + i] = g[6 + i]
        <3>1. \A i \in 1 .. 7 : ReadBack(f).known[i] = f[6 + i]
            BY ReadBytes13
        <3>2. \A i \in 1 .. 7 : ReadBack(g).known[i] = g[6 + i]
            BY ReadBytes13
        <3> QED
            BY <1>3, <3>1, <3>2
    <2>5. \A i \in 2 .. 4 : i - 1 \in 1 .. 3 /\ (i - 1) + 1 = i
        OBVIOUS
    <2>6. \A i \in 7 .. 13 : i - 6 \in 1 .. 7 /\ 6 + (i - 6) = i
        OBVIOUS
    <2>7. \A i \in 2 .. 4 : MaskedId(f)[i] = MaskedId(g)[i]
        BY <2>2, <2>5
    <2>8. \A i \in 7 .. 13 : f[i] = g[i]
        BY <2>4, <2>6
    <2> QED
        BY <2>1, <2>3, <2>7, <2>8
<1>4. ASSUME \A i \in 1 .. 4 : MaskedId(f)[i] = MaskedId(g)[i], Data(f) = Data(g)
      PROVE  ReadBack(f) = ReadBack(g)
    <2>1. MaskedId(f) = MaskedId(g)
        BY <1>4, MaskedBytes, SeqEqual
    <2> QED
        BY <1>4, <2>1 DEF ReadBack
<1> QED
    BY <1>1, <1>2, <1>3, <1>4 DEF Told, Data

\* Of a frame received, what read_can_frame hands out tells the number of its identifier
\* and its data, but neither head nor flags: two frames come out alike, but for the byte
\* behind the block, exactly when those agree, whatever the rest of them is.
THEOREM NumbersAndDataTold ==
    \A f, g \in Bytes13 : ReadBack(f) # ReadBack(g) <=> Told(f, g)
BY ReadToldApart
=============================================================================
