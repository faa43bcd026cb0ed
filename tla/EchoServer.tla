------------------------------ MODULE EchoServer ------------------------------
(***************************************************************************)
(* r_tcp_to_can/src/main.rs: the line server.  main accepts connections    *)
(* and spawns, for each, a task that reads lines and hands them through a  *)
(* bounded channel to a task that writes them back.                        *)
(*                                                                         *)
(* Lines are numbered; LongLines are longer than the writer's buffer, the  *)
(* rest have one length, less than it.  tokio is not part of the           *)
(* repository: its BufWriter keeps what is written until that would        *)
(* overflow its buffer, passes the buffer on to the socket only then, after*)
(* it what is too long for the buffer, and forgets it when it is dropped; a*)
(* channel whose sender is gone ends once it is empty, one whose receiver  *)
(* is gone refuses what is sent; a runtime that ends drops its tasks.  One *)
(* connection is modelled: connections share nothing but the fate of main. *)
(***************************************************************************)
EXTENDS Integers, Sequences

CONSTANTS
    ChannelCap,  \* lines the channel holds, 100 in the program
    BufferCap,   \* lines the BufWriter holds
    SocketCap,   \* lines the kernel takes that the client has not read
    LongLines,   \* the numbers of lines that do not fit into an empty buffer
    MaxLines     \* bound: lines a client sends

ASSUME EchoAssumption ==
    /\ ChannelCap \in Nat \ {0}
    /\ BufferCap \in Nat \ {0}
    /\ SocketCap \in Nat \ {0}
    /\ LongLines \subseteq Nat
    /\ MaxLines \in Nat

VARIABLES
    server,      \* "accepting", or "ended" once accept has failed
    client,      \* the client's end: "away", "open", "closed" (no more lines), "reset"
    sent,        \* lines the client has sent
    unended,     \* whether the last of them has no newline
    reader,      \* read_from_client: "none", "read", "send", "done"
    received,    \* the lines it has read, as it passes them on
    channel,     \* the mpsc channel
    writer,      \* write_to_client: "none", "receive", "write", "flush", "direct", "done"
    writing,     \* the line it has taken from the channel
    buffer,      \* of its BufWriter
    echoed,      \* the lines passed on to the socket
    fetched      \* how many of them the client has read

clientVars == <<client, sent, unended, fetched>>
readVars == <<reader, received>>
writeVars == <<writer, writing, buffer, echoed>>
vars == <<server, clientVars, readVars, channel, writeVars>>

\* A line without its last character: the newline, or else a character of its text.
Line(n, ended) == [number |-> n, whole |-> ended]

Init ==
    /\ server = "accepting"
    /\ client = "away"
    /\ sent = 0
    /\ unended = FALSE
    /\ reader = "none"
    /\ received = <<>>
    /\ channel = <<>>
    /\ writer = "none"
    /\ writing = <<>>
    /\ buffer = <<>>
    /\ echoed = <<>>
    /\ fetched = 0

-----------------------------------------------------------------------------
(* main                                                                     *)

\* accept, and the two tasks of process_client.
Accept ==
    /\ server = "accepting"
    /\ client = "away"
    /\ client' = "open"
    /\ reader' = "read"
    /\ writer' = "receive"
    /\ UNCHANGED <<server, sent, unended, fetched, received, channel, writing, buffer, echoed>>

Dropped(task) == IF task = "none" THEN "none" ELSE "done"

\* An error of accept ends the loop, main and with it the runtime.
AcceptFails ==
    /\ server = "accepting"
    /\ server' = "ended"
    /\ reader' = Dropped(reader)
    /\ writer' = Dropped(writer)
    /\ channel' = <<>>
    /\ writing' = <<>>
    /\ buffer' = <<>>
    /\ UNCHANGED <<clientVars, received, echoed>>

-----------------------------------------------------------------------------
(* read_from_client                                                         *)

Unread == sent - Len(received)

\* read_line, pop and drain: the line is at hand, to be sent next.
ReadLine ==
    /\ reader = "read"
    /\ Unread > 0
    /\ LET n == Len(received) + 1
       IN received' = Append(received, Line(n, n < sent \/ ~unended))
    /\ reader' = "send"
    /\ UNCHANGED <<server, clientVars, channel, writeVars>>

\* The end of the stream, an error of the connection, or a line that is no UTF-8.
ReadEnds ==
    /\ reader = "read"
    /\ Unread > 0 \/ client \in {"closed", "reset"}
    /\ reader' = "done"
    /\ UNCHANGED <<server, clientVars, received, channel, writeVars>>

\* Slip: an unbounded channel.
RoomAlways == TRUE
Room == Len(channel) < ChannelCap

\* Slip: a channel that keeps the newest line only.
QueuedNewest == <<received[Len(received)]>>
Queued == Append(channel, received[Len(received)])

SendLine ==
    /\ reader = "send"
    /\ writer # "done"
    /\ Room
    /\ channel' = Queued
    /\ reader' = "read"
    /\ UNCHANGED <<server, clientVars, received, writeVars>>

SendFails ==
    /\ reader = "send"
    /\ writer = "done"
    /\ reader' = "done"
    /\ UNCHANGED <<server, clientVars, received, channel, writeVars>>

Reader == ReadLine \/ ReadEnds \/ SendLine \/ SendFails

-----------------------------------------------------------------------------
(* write_to_client                                                          *)

Receive ==
    /\ writer = "receive"
    /\ channel # <<>>
    /\ writing' = <<Head(channel)>>
    /\ channel' = Tail(channel)
    /\ writer' = "write"
    /\ UNCHANGED <<server, clientVars, readVars, buffer, echoed>>

\* Slip: process_client keeps a sender of its own.
SendersGoneNever == FALSE
SendersGone == reader = "done"

\* The channel has ended.  The BufWriter goes with what it holds.
ReceiveEnds ==
    /\ writer = "receive"
    /\ channel = <<>>
    /\ SendersGone
    /\ writer' = "done"
    /\ buffer' = <<>>
    /\ UNCHANGED <<server, clientVars, readVars, channel, writing, echoed>>

TooLong == writing[1].number \in LongLines

\* write_all: the line is buffered, if need be after the buffer has been passed on; one
\* that is too long for the buffer is not.
Write ==
    /\ writer = "write"
    /\ IF Len(buffer) < BufferCap /\ ~TooLong
       THEN /\ buffer' = buffer \o writing
            /\ writing' = <<>>
            /\ writer' = "receive"
       ELSE /\ writer' = IF buffer = <<>> THEN "direct" ELSE "flush"
            /\ UNCHANGED <<buffer, writing>>
    /\ UNCHANGED <<server, clientVars, readVars, channel, echoed>>

SocketRoom == client # "reset" /\ Len(echoed) - fetched < SocketCap

\* The kernel takes some of the buffer, when it has room.
PassOn ==
    /\ writer = "flush"
    /\ SocketRoom
    /\ echoed' = Append(echoed, Head(buffer))
    /\ buffer' = Tail(buffer)
    /\ writer' = IF Len(buffer) = 1 THEN "write" ELSE "flush"
    /\ UNCHANGED <<server, clientVars, readVars, channel, writing>>

\* The line that was too long for the buffer is taken by the kernel.
PassLong ==
    /\ writer = "direct"
    /\ SocketRoom
    /\ echoed' = echoed \o writing
    /\ writing' = <<>>
    /\ writer' = "receive"
    /\ UNCHANGED <<server, clientVars, readVars, channel, buffer>>

\* A write error ends the task, and with it the channel and the buffer.
WriteFails ==
    /\ writer \in {"flush", "direct"}
    /\ client = "reset"
    /\ writer' = "done"
    /\ writing' = <<>>
    /\ buffer' = <<>>
    /\ channel' = <<>>
    /\ UNCHANGED <<server, clientVars, readVars, echoed>>

Writer == Receive \/ ReceiveEnds \/ Write \/ PassOn \/ PassLong \/ WriteFails

-----------------------------------------------------------------------------
(* The client at the other end                                              *)

ClientSends ==
    /\ client = "open"
    /\ sent < MaxLines
    /\ sent' = sent + 1
    /\ UNCHANGED <<server, client, unended, fetched, readVars, channel, writeVars>>

\* It may close its side in the middle of a line.
ClientCloses ==
    /\ client = "open"
    /\ client' = "closed"
    /\ \/ UNCHANGED <<sent, unended>>
       \/ /\ sent < MaxLines
          /\ sent' = sent + 1
          /\ unended' = TRUE
    /\ UNCHANGED <<server, fetched, readVars, channel, writeVars>>

ClientResets ==
    /\ client \in {"open", "closed"}
    /\ client' = "reset"
    /\ UNCHANGED <<server, sent, unended, fetched, readVars, channel, writeVars>>

ClientFetches ==
    /\ client \in {"open", "closed"}
    /\ fetched < Len(echoed)
    /\ fetched' = fetched + 1
    /\ UNCHANGED <<server, client, sent, unended, readVars, channel, writeVars>>

Next ==
    \/ Accept \/ AcceptFails
    \/ Reader \/ Writer
    \/ ClientSends \/ ClientCloses \/ ClientResets \/ ClientFetches

Spec == Init /\ [][Next]_vars

\* The runtime polls every task that is woken; the client owes nothing.
FairSpec == Spec /\ WF_vars(Reader) /\ WF_vars(Writer)

-----------------------------------------------------------------------------
Lines == [number : Nat, whole : BOOLEAN]

\* The types of the server's state and of the client's.
TypeOK ==
    /\ server \in {"accepting", "ended"}
    /\ client \in {"away", "open", "closed", "reset"}
    /\ sent \in 0 .. MaxLines
    /\ unended \in BOOLEAN
    /\ reader \in {"none", "read", "send", "done"}
    /\ writer \in {"none", "receive", "write", "flush", "direct", "done"}
    /\ {received, channel, writing, buffer, echoed} \subseteq Seq(Lines)
    /\ Len(channel) <= ChannelCap
    /\ Len(buffer) <= BufferCap
    /\ fetched \in 0 .. Len(echoed)

AtHand == IF reader = "send" THEN <<received[Len(received)]>> ELSE <<>>

\* However slow the client is in reading, no line read is lost or overtaken on its
\* way through the channel and the buffer, while the write task lives.
NoLineLost ==
    writer \notin {"none", "done"} =>
        echoed \o buffer \o writing \o channel \o AtHand = received

\* What the client gets, however the connection ends, are its own lines in order
\* from the first on, whole; only a last line that had no newline has lost a character
\* of its text, and the client gets that one only if it was too long for the buffer.
EchoedInOrder ==
    \A i \in 1 .. Len(echoed) :
        /\ echoed[i].number = i
        /\ echoed[i].whole \/ (i = sent /\ unended /\ i \in LongLines)

\* However the connection or the server ends, accept's error included, no more lines that
\* were read go unanswered than channel, buffer and the hands of both tasks hold; and
\* while the server accepts and the client does not reset, the writer ends with all
\* of them passed on but those in its buffer.
LossBounded ==
    LET unanswered == Len(received) - Len(echoed)
    IN /\ unanswered <= BufferCap + ChannelCap + 2
       /\ (writer = "done" /\ server = "accepting" /\ client # "reset")
             => unanswered <= BufferCap

\* A connection that is reset leaves no task behind: the end of either task is seen
\* by the other one through the channel.
TasksEnd ==
    client = "reset" ~> reader = "done" /\ writer = "done"

\* Every line read is handed to the writer, which answers the client with it, as
\* long as the client stays, reads what it is sent, and the tasks live.
Answered ==
    \A k \in 1 .. MaxLines :
        Len(received) >= k ~>
            \/ Len(echoed) >= k
            \/ client # "open"
            \/ reader = "done"
            \/ fetched < Len(echoed)
=============================================================================
