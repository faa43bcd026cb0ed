-------------------------- MODULE EchoServerProofs ---------------------------
(***************************************************************************)
(* The line server for every capacity of its channel, of its buffer and of *)
(* the socket: no line is lost or overtaken between its two tasks, and the *)
(* client gets its own lines in order.                                     *)
(***************************************************************************)
EXTENDS EchoServer, SequenceTheorems, TLAPS

\* Both tasks start and are dropped together; what each place in a task implies of
\* what the task has in hand.
Sane ==
    /\ client = "away" => reader = "none" /\ sent = 0
    /\ reader = "none" <=> writer = "none"
    /\ writer = "none" => /\ received = <<>> /\ channel = <<>> /\ writing = <<>>
                          /\ buffer = <<>> /\ echoed = <<>>
    /\ writer = "receive" => writing = <<>>
    /\ writer \in {"write", "flush", "direct"} => Len(writing) = 1
    /\ writer = "flush" => buffer # <<>>
    /\ writer = "direct" => buffer = <<>> /\ writing[1].number \in LongLines
    /\ reader = "send" => received # <<>>
    /\ unended => client \in {"closed", "reset"}
    /\ Len(received) <= sent

\* Lines are read in order, and only the last one sent can lack its newline.
Numbered ==
    \A i \in 1 .. Len(received) :
        /\ received[i].number = i
        /\ received[i].whole \/ (i = sent /\ unended)

\* What has been passed on is where reading began; it stays so when the writer has ended.
Prefix ==
    /\ Len(echoed) <= Len(received)
    /\ \A i \in 1 .. Len(echoed) : echoed[i] = received[i]

PlainTyped ==
    /\ server \in {"accepting", "ended"}
    /\ client \in {"away", "open", "closed", "reset"}
    /\ sent \in 0 .. MaxLines
    /\ unended \in BOOLEAN
    /\ reader \in {"none", "read", "send", "done"}
    /\ writer \in {"none", "receive", "write", "flush", "direct", "done"}

SeqsTyped ==
    /\ received \in Seq(Lines) /\ channel \in Seq(Lines) /\ writing \in Seq(Lines)
    /\ buffer \in Seq(Lines) /\ echoed \in Seq(Lines)
    /\ Len(channel) <= ChannelCap
    /\ Len(buffer) <= BufferCap
    /\ fetched \in 0 .. Len(echoed)

Pipe == PlainTyped /\ SeqsTyped /\ Sane /\ Numbered /\ NoLineLost /\ Prefix

-----------------------------------------------------------------------------
(* Moving a line from one part of the pipe to the next.                     *)

LEMMA EmptyLines == <<>> \in Seq(Lines) /\ Len(<<>>) = 0
BY EmptySeq

LEMMA SeqFacts ==
    ASSUME NEW s \in Seq(Lines)
    PROVE  /\ Len(s) \in Nat /\ \A i \in 1 .. Len(s) : s[i] \in Lines
           /\ s # <<>> => Len(s) > 0
           /\ s \o <<>> = s
           /\ \A t \in Seq(Lines) : s \o t \in Seq(Lines)
           /\ \A e \in Lines : /\ Append(s, e) \in Seq(Lines)
                               /\ Append(s, e) = s \o <<e>>
                               /\ Len(Append(s, e)) = Len(s) + 1
<1>1. Len(s) \in Nat /\ \A i \in 1 .. Len(s) : s[i] \in Lines
    BY LenProperties, ElementOfSeq
<1>2. s # <<>> => Len(s) \in Nat \ {0}
    BY EmptySeq
<1>3. s # <<>> => Len(s) > 0
    BY <1>2
<1>4. s \o <<>> = s /\ \A t \in Seq(Lines) : s \o t \in Seq(Lines)
    BY ConcatEmptySeq, ConcatProperties
<1>5. \A e \in Lines : /\ Append(s, e) \in Seq(Lines)
                       /\ Append(s, e) = s \o <<e>>
                       /\ Len(Append(s, e)) = Len(s) + 1
    BY AppendProperties, AppendIsConcat
<1> QED
    BY <1>1, <1>3, <1>4, <1>5

LEMMA Regroup == \A s, t, u \in Seq(Lines) : (s \o t) \o u = s \o (t \o u)
BY ConcatAssociative

LEMMA HeadTail ==
    ASSUME NEW s \in Seq(Lines), s # <<>>
    PROVE  /\ Head(s) \in Lines /\ Tail(s) \in Seq(Lines) /\ Len(Tail(s)) = Len(s) - 1
           /\ <<Head(s)>> \in Seq(Lines)
           /\ <<Head(s)>> \o Tail(s) = s
<1>1. Head(s) \in Lines /\ Tail(s) \in Seq(Lines) /\ Len(Tail(s)) = Len(s) - 1
      /\ \A i \in 1 .. Len(Tail(s)) : Tail(s)[i] = s[i + 1]
    BY HeadTailProperties
<1> DEFINE h == <<Head(s)>>
           t == Tail(s)
<1>2. h \in Seq(Lines) /\ Len(h) = 1 /\ h[1] = s[1]
    BY <1>1
<1>3. Len(s) \in Nat /\ Len(s) > 0 /\ t \in Seq(Lines)
    BY <1>1, SeqFacts
<1> HIDE DEF h, t
<1>4. /\ h \o t \in Seq(Lines) /\ Len(h \o t) = Len(h) + Len(t)
      /\ \A i \in 1 .. Len(h) + Len(t) : (h \o t)[i] = IF i <= Len(h) THEN h[i] ELSE t[i - Len(h)]
    BY <1>2, <1>3, ConcatProperties
<1>5. Len(h \o t) = Len(s)
    BY <1>1, <1>2, <1>3, <1>4 DEF t
<1>6. \A i \in 1 .. Len(s) : (h \o t)[i] = s[i]
    <2> TAKE i \in 1 .. Len(s)
    <2>1. (h \o t)[i] = IF i <= 1 THEN h[i] ELSE t[i - 1]
        BY <1>2, <1>4, <1>5
    <2>2. CASE i = 1
        BY <1>2, <2>1, <2>2
    <2>3. CASE i > 1
        <3>1. i - 1 \in 1 .. Len(t) /\ (i - 1) + 1 = i
            BY <1>1, <1>3, <2>3 DEF t
        <3>2. t[i - 1] = s[(i - 1) + 1]
            BY <1>1, <3>1 DEF t
        <3> QED
            BY <1>3, <2>1, <2>3, <3>1, <3>2
    <2>4. i = 1 \/ i > 1
        BY <1>3
    <2> QED
        BY <2>2, <2>3, <2>4
<1>7. h \o t = s
    BY <1>4, <1>5, <1>6, SeqEqual
<1> QED
    BY <1>1, <1>2, <1>7 DEF h, t

\* What is in front of a sequence comes out of it first.
LEMMA PrefixOf ==
    ASSUME NEW s \in Seq(Lines), NEW t \in Seq(Lines)
    PROVE  Len(s) <= Len(s \o t) /\ \A i \in 1 .. Len(s) : (s \o t)[i] = s[i]
<1>1. /\ Len(s \o t) = Len(s) + Len(t)
      /\ \A i \in 1 .. Len(s) + Len(t) : (s \o t)[i] = IF i <= Len(s) THEN s[i] ELSE t[i - Len(s)]
    BY ConcatProperties
<1>2. Len(s) \in Nat /\ Len(t) \in Nat
    BY SeqFacts
<1> QED
    BY <1>1, <1>2

LEMMA AtHandTyped ==
    ASSUME SeqsTyped, Sane
    PROVE  AtHand \in Seq(Lines)
<1>1. CASE reader = "send"
    <2>1. received \in Seq(Lines) /\ Len(received) \in Nat /\ Len(received) > 0
        BY <1>1, SeqFacts DEF SeqsTyped, Sane
    <2>2. received[Len(received)] \in Lines
        BY <2>1, SeqFacts
    <2> QED
        BY <1>1, <2>2 DEF AtHand
<1>2. CASE reader # "send"
    BY <1>2, EmptyLines DEF AtHand
<1> QED
    BY <1>1, <1>2

\* As long as the writer lives, what was passed on is a prefix of what was read.
LEMMA LivePrefix ==
    ASSUME SeqsTyped, Sane, NoLineLost, writer \notin {"none", "done"}
    PROVE  Prefix
<1> DEFINE rest == buffer \o (writing \o (channel \o AtHand))
<1>1. /\ echoed \in Seq(Lines) /\ buffer \in Seq(Lines) /\ writing \in Seq(Lines)
      /\ channel \in Seq(Lines) /\ AtHand \in Seq(Lines)
    BY AtHandTyped DEF SeqsTyped
<1>2. channel \o AtHand \in Seq(Lines)
    BY <1>1, SeqFacts
<1>3. writing \o (channel \o AtHand) \in Seq(Lines)
    BY <1>1, <1>2, SeqFacts
<1>4. rest \in Seq(Lines)
    BY <1>1, <1>3, SeqFacts
<1>5. echoed \o buffer \in Seq(Lines)
    BY <1>1, SeqFacts
<1>6. (echoed \o buffer) \o writing \in Seq(Lines)
    BY <1>1, <1>5, SeqFacts
<1>7. echoed \o buffer \o writing \o channel \o AtHand = echoed \o rest
    <2>1. ((echoed \o buffer) \o writing) \o channel \o AtHand
            = ((echoed \o buffer) \o writing) \o (channel \o AtHand)
        BY <1>1, <1>6, Regroup, ZenonT(30)
    <2>2. ((echoed \o buffer) \o writing) \o (channel \o AtHand)
            = (echoed \o buffer) \o (writing \o (channel \o AtHand))
        BY <1>1, <1>2, <1>5, Regroup, ZenonT(30)
    <2>3. (echoed \o buffer) \o (writing \o (channel \o AtHand)) = echoed \o rest
        BY <1>1, <1>3, Regroup, ZenonT(30)
    <2> QED
        BY <2>1, <2>2, <2>3
<1>8. received = echoed \o rest
    BY <1>7 DEF NoLineLost
<1> HIDE DEF rest
<1> QED
    BY <1>1, <1>4, <1>8, PrefixOf DEF Prefix

-----------------------------------------------------------------------------
LEMMA InitPipe == Init => Pipe
<1> SUFFICES ASSUME Init PROVE Pipe
    OBVIOUS
<1> USE EmptyLines, EchoAssumption
<1>1. PlainTyped
    <2>1. 0 \in 0 .. MaxLines
        BY EchoAssumption
    <2> QED
        BY <2>1 DEF Init, PlainTyped
<1>2. SeqsTyped
    BY DEF Init, SeqsTyped
<1>3. Sane
    BY DEF Init, Sane
<1>4. Numbered /\ NoLineLost /\ Prefix
    BY DEF Init, Numbered, NoLineLost, Prefix
<1> QED
    BY <1>1, <1>2, <1>3, <1>4 DEF Pipe

\* The client and main.
LEMMA OutsidePipe ==
    ASSUME Pipe,
           \/ Accept \/ AcceptFails
           \/ ClientSends \/ ClientCloses \/ ClientResets \/ ClientFetches
    PROVE  Pipe'
<1> USE EmptyLines, EchoAssumption
<1>1. PlainTyped /\ SeqsTyped /\ Sane /\ Numbered /\ NoLineLost /\ Prefix
    BY DEF Pipe
<1> USE DEF clientVars, readVars, writeVars
<1>2. received' = received /\ echoed' = echoed /\ sent' \in {sent, sent + 1}
    BY DEF Accept, AcceptFails, ClientSends, ClientCloses, ClientResets, ClientFetches
<1>3. Prefix'
    BY <1>1, <1>2 DEF Prefix
<1>4. received \in Seq(Lines) /\ Len(received) \in Nat /\ sent \in Nat /\ Len(received) <= sent
      /\ Len(echoed) \in Nat
    <2>1. received \in Seq(Lines) /\ echoed \in Seq(Lines) /\ sent \in 0 .. MaxLines
        BY <1>1 DEF SeqsTyped, PlainTyped
    <2>2. Len(received) <= sent
        BY <1>1 DEF Sane
    <2> QED
        BY <2>1, <2>2, SeqFacts
<1>5. CASE Accept
    <2>1. PlainTyped'
        BY <1>1, <1>5 DEF Accept, PlainTyped
    <2>2. SeqsTyped'
        BY <1>1, <1>5 DEF Accept, SeqsTyped
    <2>3. Sane'
        BY <1>1, <1>5 DEF Accept, Sane
    <2>4. Numbered'
        BY <1>1, <1>5 DEF Accept, Numbered
    <2>5. NoLineLost'
        <3>1. received = <<>> /\ channel = <<>> /\ writing = <<>> /\ buffer = <<>> /\ echoed = <<>>
            BY <1>1, <1>5 DEF Accept, Sane
        <3>2. AtHand' = <<>>
            BY <1>5 DEF Accept, AtHand
        <3>3. <<>> \o <<>> \o <<>> \o <<>> \o <<>> = <<>>
            BY SeqFacts
        <3> QED
            BY <1>5, <3>1, <3>2, <3>3 DEF Accept, NoLineLost
    <2> QED
        BY <1>3, <2>1, <2>2, <2>3, <2>4, <2>5 DEF Pipe
<1>6. CASE AcceptFails
    <2>1. PlainTyped'
        BY <1>1, <1>6 DEF AcceptFails, PlainTyped, Dropped
    <2>2. SeqsTyped'
        BY <1>1, <1>6 DEF AcceptFails, SeqsTyped
    <2>3. Sane'
        BY <1>1, <1>6 DEF AcceptFails, Sane, Dropped
    <2>4. Numbered' /\ NoLineLost'
        BY <1>1, <1>6 DEF AcceptFails, Numbered, NoLineLost, Dropped
    <2> QED
        BY <1>3, <2>1, <2>2, <2>3, <2>4 DEF Pipe
<1>7. CASE ClientSends \/ ClientCloses \/ ClientResets
    <2>1. PlainTyped'
        <3>1. sent' \in 0 .. MaxLines
            <4>1. sent \in 0 .. MaxLines /\ MaxLines \in Nat
                BY <1>1 DEF PlainTyped
            <4>2. sent' = sent \/ (sent' = sent + 1 /\ sent < MaxLines)
                BY <1>7 DEF ClientSends, ClientCloses, ClientResets
            <4> QED
                BY <4>1, <4>2
        <3>2. /\ UNCHANGED <<server, reader, writer>>
              /\ unended' \in {unended, TRUE}
              /\ client' \in {client, "closed", "reset"}
            BY <1>7 DEF ClientSends, ClientCloses, ClientResets
        <3> QED
            BY <1>1, <3>1, <3>2 DEF PlainTyped
    <2>2. UNCHANGED <<readVars, channel, writeVars, fetched>>
        BY <1>7 DEF ClientSends, ClientCloses, ClientResets
    <2>3. SeqsTyped' /\ NoLineLost'
        BY <1>1, <2>2 DEF SeqsTyped, NoLineLost, AtHand
    <2>4. Sane'
        <3>1. Len(received) <= sent'
            BY <1>2, <1>4
        <3>2. /\ client' # "away" /\ client # "away"
              /\ unended' => client' \in {"closed", "reset"}
            BY <1>1, <1>7 DEF ClientSends, ClientCloses, ClientResets, Sane
        <3> QED
            BY <1>1, <2>2, <3>1, <3>2 DEF Sane
    <2>5. Numbered'
        <3>1. CASE sent' = sent /\ unended' = unended
            BY <1>1, <2>2, <3>1 DEF Numbered
        <3>2. CASE ~unended
            BY <1>1, <2>2, <3>2 DEF Numbered
        <3> QED
            BY <1>1, <1>7, <3>1, <3>2 DEF ClientSends, ClientCloses, ClientResets, Sane
    <2> QED
        BY <1>3, <2>1, <2>3, <2>4, <2>5 DEF Pipe
<1>8. CASE ClientFetches
    <2>1. fetched' \in 0 .. Len(echoed)
        <3>1. fetched \in 0 .. Len(echoed)
            BY <1>1 DEF SeqsTyped
        <3>2. fetched < Len(echoed) /\ fetched' = fetched + 1
            BY <1>8 DEF ClientFetches
        <3> QED
            BY <1>4, <3>1, <3>2
    <2>2. UNCHANGED <<server, client, sent, unended, readVars, channel, writeVars>>
        BY <1>8 DEF ClientFetches
    <2>3. PlainTyped' /\ SeqsTyped'
        BY <1>1, <2>1, <2>2 DEF PlainTyped, SeqsTyped
    <2>4. Sane' /\ Numbered' /\ NoLineLost'
        BY <1>1, <2>2 DEF Sane, Numbered, NoLineLost, AtHand
    <2> QED
        BY <1>3, <2>3, <2>4 DEF Pipe
<1> QED
    BY <1>5, <1>6, <1>7, <1>8

LEMMA ReaderPipe ==
    ASSUME Pipe, Reader
    PROVE  Pipe'
<1> USE DEF clientVars, readVars, writeVars
<1>1. PlainTyped /\ SeqsTyped /\ Sane /\ Numbered /\ NoLineLost /\ Prefix
    BY DEF Pipe
<1>2. received \in Seq(Lines) /\ channel \in Seq(Lines) /\ AtHand \in Seq(Lines)
      /\ Len(received) \in Nat /\ Len(channel) \in Nat /\ sent \in Nat
      /\ Len(received) <= sent
    <2>1. received \in Seq(Lines) /\ channel \in Seq(Lines)
        BY <1>1 DEF SeqsTyped
    <2>2. Len(received) <= sent /\ sent \in 0 .. MaxLines /\ MaxLines \in Nat
        BY <1>1, EchoAssumption DEF Sane, PlainTyped
    <2> QED
        BY <1>1, <2>1, <2>2, SeqFacts, AtHandTyped
<1>3. PlainTyped'
    BY <1>1 DEF Reader, ReadLine, ReadEnds, SendLine, SendFails, PlainTyped
<1> DEFINE head == echoed \o buffer \o writing
           n == Len(received) + 1
           line == Line(n, n < sent \/ ~unended)
<1>4. head \in Seq(Lines)
    <2>1. echoed \in Seq(Lines) /\ buffer \in Seq(Lines) /\ writing \in Seq(Lines)
        BY <1>1 DEF SeqsTyped
    <2>2. echoed \o buffer \in Seq(Lines)
        BY <2>1, SeqFacts
    <2> QED
        BY <2>1, <2>2, SeqFacts
<1>5. head \o channel \in Seq(Lines)
    BY <1>2, <1>4, SeqFacts
<1>6. CASE ReadLine
    <2>1. /\ reader = "read" /\ reader' = "send" /\ received' = Append(received, line)
          /\ UNCHANGED <<server, clientVars, channel, writeVars>>
          /\ sent - Len(received) > 0
        BY <1>6 DEF ReadLine, Unread
    <2>2. n \in Nat /\ n <= sent
        BY <1>2, <2>1
    <2>3. line \in Lines /\ line.number = n /\ (line.whole \/ (n = sent /\ unended))
        <3>1. n < sent \/ n = sent
            BY <1>2, <2>2
        <3> DEFINE w == n < sent \/ ~unended
        <3>2. w \in BOOLEAN
            BY Zenon
        <3>3. w \/ (n = sent /\ unended)
            BY <3>1
        <3> HIDE DEF n, w
        <3>4. Line(n, w) \in Lines /\ Line(n, w).number = n /\ Line(n, w).whole = w
            BY <2>2, <3>2 DEF Line, Lines
        <3> QED
            BY <3>3, <3>4 DEF w
    <2> HIDE DEF line
    <2>4. /\ received' \in Seq(Lines) /\ Len(received') = n
          /\ received' = received \o <<line>>
          /\ \A i \in 1 .. Len(received) : received'[i] = received[i]
          /\ received'[n] = line
        BY <1>2, <2>1, <2>3, SeqFacts, AppendProperties
    <2> HIDE DEF n
    <2>5. \A i \in 1 .. n : i \in 1 .. Len(received) \/ i = n
        BY <1>2 DEF n
    <2>6. SeqsTyped'
        BY <1>1, <2>1, <2>4 DEF SeqsTyped
    <2>7. writer # "none"
        BY <1>1, <2>1 DEF Sane
    <2>8. Sane'
        <3>1. received' # <<>>
            BY <2>2, <2>4, EmptyLines DEF n
        <3>2. Len(received') <= sent'
            BY <2>1, <2>2, <2>4
        <3> QED
            BY <1>1, <2>1, <2>7, <3>1, <3>2 DEF Sane
    <2>9. Numbered'
        BY <1>1, <2>1, <2>3, <2>4, <2>5 DEF Numbered
    <2>10. NoLineLost'
        <3>1. AtHand = <<>> /\ AtHand' = <<line>>
            BY <2>1, <2>4 DEF AtHand
        <3>2. (head \o channel) \o <<>> = head \o channel
            BY <1>5, SeqFacts
        <3>3. writer \notin {"none", "done"} => head \o channel = received
            BY <1>1, <3>1, <3>2 DEF NoLineLost
        <3>4. head' = head /\ channel' = channel /\ writer' = writer
            BY <2>1
        <3> QED
            BY <2>4, <3>1, <3>3, <3>4 DEF NoLineLost
    <2>11. Prefix'
        <3>1. Len(echoed) <= Len(received') /\ Len(echoed) <= Len(received)
            <4>1. Len(echoed) \in Nat /\ Len(echoed) <= Len(received)
                BY <1>1, SeqFacts DEF SeqsTyped, Prefix
            <4> QED
                BY <1>2, <2>4, <4>1 DEF n
        <3>2. \A i \in 1 .. Len(echoed) : i \in 1 .. Len(received)
            BY <1>1, <1>2, <3>1, SeqFacts DEF SeqsTyped
        <3> QED
            BY <1>1, <2>1, <2>4, <3>1, <3>2 DEF Prefix
    <2> QED
        BY <1>3, <2>6, <2>8, <2>9, <2>10, <2>11 DEF Pipe
<1>7. CASE SendLine
    <2> DEFINE m == received[Len(received)]
    <2>1. /\ reader = "send" /\ reader' = "read" /\ writer # "done"
          /\ channel' = Append(channel, m) /\ Len(channel) < ChannelCap
          /\ UNCHANGED <<server, clientVars, received, writeVars>>
        BY <1>7 DEF SendLine, Queued, Room
    <2>2. m \in Lines
        <3>1. Len(received) > 0
            BY <1>1, <1>2, <2>1, SeqFacts DEF Sane
        <3> QED
            BY <1>2, <3>1, SeqFacts
    <2> HIDE DEF m
    <2>3. /\ channel' \in Seq(Lines) /\ channel' = channel \o <<m>>
          /\ Len(channel') = Len(channel) + 1
        BY <1>2, <2>1, <2>2, SeqFacts
    <2>4. Len(channel') <= ChannelCap
        BY <1>2, <2>1, <2>3, EchoAssumption
    <2>5. SeqsTyped'
        BY <1>1, <2>1, <2>3, <2>4 DEF SeqsTyped
    <2>6. writer # "none"
        BY <1>1, <2>1 DEF Sane
    <2>7. Sane' /\ Numbered' /\ Prefix'
        BY <1>1, <2>1, <2>6 DEF Sane, Numbered, Prefix
    <2>8. NoLineLost'
        <3>1. AtHand = <<m>> /\ AtHand' = <<>>
            BY <2>1 DEF AtHand, m
        <3>2. <<m>> \in Seq(Lines)
            BY <2>2
        <3>3. (head \o channel) \o <<m>> = head \o (channel \o <<m>>)
            BY <1>2, <1>4, <3>2, Regroup, ZenonT(30)
        <3>4. head \o channel' \in Seq(Lines)
            BY <1>4, <2>3, SeqFacts
        <3>5. (head \o channel') \o <<>> = head \o channel'
            BY <3>4, SeqFacts
        <3>6. head \o channel \o AtHand = received
            BY <1>1, <2>1, <2>6 DEF NoLineLost
        <3>7. head' = head /\ received' = received
            BY <2>1
        <3>8. head' \o channel' \o AtHand' = received'
            BY <2>3, <3>1, <3>3, <3>5, <3>6, <3>7
        <3> QED
            BY <3>8 DEF NoLineLost
    <2> QED
        BY <1>3, <2>5, <2>7, <2>8 DEF Pipe
<1>8. CASE ReadEnds \/ SendFails
    <2>1. /\ reader' = "done" /\ reader # "none"
          /\ UNCHANGED <<server, clientVars, received, channel, writeVars>>
          /\ reader = "read" \/ writer = "done"
        BY <1>8 DEF ReadEnds, SendFails
    <2>2. SeqsTyped'
        BY <1>1, <2>1 DEF SeqsTyped
    <2>3. Sane' /\ Numbered' /\ Prefix'
        BY <1>1, <2>1 DEF Sane, Numbered, Prefix
    <2>4. NoLineLost'
        <3>1. CASE writer = "done"
            BY <2>1, <3>1 DEF NoLineLost
        <3>2. CASE reader = "read"
            <4>1. AtHand = <<>> /\ AtHand' = <<>>
                BY <2>1, <3>2 DEF AtHand
            <4> QED
                BY <1>1, <2>1, <4>1 DEF NoLineLost
        <3> QED
            BY <2>1, <3>1, <3>2
    <2> QED
        BY <1>3, <2>2, <2>3, <2>4 DEF Pipe
<1> QED
    BY <1>6, <1>7, <1>8 DEF Reader

\* The steps of the writer that keep it alive move the border between two parts of the
\* pipe; the others end it.
LEMMA WriterPipe ==
    ASSUME Pipe, Writer
    PROVE  Pipe'
<1> USE DEF clientVars, readVars, writeVars
<1>1. PlainTyped /\ SeqsTyped /\ Sane /\ Numbered /\ NoLineLost /\ Prefix
    BY DEF Pipe
<1>2. /\ channel \in Seq(Lines) /\ writing \in Seq(Lines)
      /\ buffer \in Seq(Lines) /\ echoed \in Seq(Lines) /\ AtHand \in Seq(Lines)
      /\ Len(channel) \in Nat /\ Len(buffer) \in Nat /\ Len(echoed) \in Nat
    <2>1. /\ channel \in Seq(Lines) /\ writing \in Seq(Lines)
          /\ buffer \in Seq(Lines) /\ echoed \in Seq(Lines)
        BY <1>1 DEF SeqsTyped
    <2> QED
        BY <1>1, <2>1, SeqFacts, AtHandTyped
<1>3. PlainTyped'
    BY <1>1 DEF Writer, Receive, ReceiveEnds, Write, PassOn, PassLong, WriteFails, PlainTyped
<1>4. received' = received /\ reader' = reader /\ UNCHANGED <<server, clientVars>>
    BY DEF Writer, Receive, ReceiveEnds, Write, PassOn, PassLong, WriteFails
<1>5. AtHand' = AtHand
    BY <1>4 DEF AtHand
<1>6. Numbered'
    BY <1>1, <1>4 DEF Numbered
<1>7. echoed \o buffer \in Seq(Lines)
    BY <1>2, SeqFacts
<1>8. CASE Receive
    <2>1. /\ writer = "receive" /\ writer' = "write" /\ channel # <<>>
          /\ writing' = <<Head(channel)>> /\ channel' = Tail(channel)
          /\ UNCHANGED <<buffer, echoed>>
        BY <1>8 DEF Receive
    <2>2. /\ writing' \in Seq(Lines) /\ channel' \in Seq(Lines)
          /\ Len(channel') = Len(channel) - 1 /\ writing' \o channel' = channel
        BY <1>2, <2>1, HeadTail
    <2>3. Len(channel') <= ChannelCap
        <3>1. Len(channel) <= ChannelCap /\ ChannelCap \in Nat
            BY <1>1, EchoAssumption DEF SeqsTyped
        <3> QED
            BY <1>2, <2>2, <3>1
    <2>4. SeqsTyped'
        BY <1>1, <1>4, <2>1, <2>2, <2>3 DEF SeqsTyped
    <2>5. Sane'
        BY <1>1, <1>4, <2>1 DEF Sane
    <2>6. NoLineLost'
        <3>1. writing = <<>>
            BY <1>1, <2>1 DEF Sane
        <3>2. (echoed \o buffer) \o writing = echoed \o buffer
            BY <1>7, <3>1, SeqFacts
        <3>3. ((echoed \o buffer) \o writing') \o channel'
                = (echoed \o buffer) \o (writing' \o channel')
            BY <1>7, <2>2, Regroup, ZenonT(30)
        <3>4. echoed \o buffer \o writing \o channel \o AtHand = received
            BY <1>1, <2>1 DEF NoLineLost
        <3> QED
            BY <1>4, <1>5, <2>1, <2>2, <3>2, <3>3, <3>4 DEF NoLineLost
    <2>7. Prefix'
        BY <1>1, <1>4, <2>1 DEF Prefix
    <2> QED
        BY <1>3, <1>6, <2>4, <2>5, <2>6, <2>7 DEF Pipe
<1>9. CASE Write /\ Len(buffer) < BufferCap /\ ~TooLong
    <2>1. /\ writer = "write" /\ writer' = "receive"
          /\ buffer' = buffer \o writing /\ writing' = <<>> /\ UNCHANGED <<channel, echoed>>
        BY <1>9 DEF Write
    <2>2. Len(writing) = 1
        BY <1>1, <2>1 DEF Sane
    <2>3. buffer' \in Seq(Lines) /\ Len(buffer') = Len(buffer) + Len(writing)
        BY <1>2, <2>1, ConcatProperties
    <2>4. Len(buffer') <= BufferCap
        <3>1. Len(writing) \in Nat /\ BufferCap \in Nat
            BY <1>2, SeqFacts, EchoAssumption
        <3> QED
            BY <1>2, <1>9, <2>2, <2>3, <3>1
    <2>5. SeqsTyped'
        BY <1>1, <1>4, <2>1, <2>3, <2>4, EmptyLines DEF SeqsTyped
    <2>6. Sane'
        BY <1>1, <1>4, <2>1 DEF Sane
    <2>7. NoLineLost'
        <3>1. echoed \o (buffer \o writing) = (echoed \o buffer) \o writing
            BY <1>2, Regroup, ZenonT(30)
        <3>2. (echoed \o buffer) \o writing \in Seq(Lines)
            BY <1>2, <1>7, SeqFacts
        <3>3. ((echoed \o buffer) \o writing) \o <<>> = (echoed \o buffer) \o writing
            BY <3>2, SeqFacts
        <3>4. echoed \o buffer \o writing \o channel \o AtHand = received
            BY <1>1, <2>1 DEF NoLineLost
        <3> QED
            BY <1>4, <1>5, <2>1, <3>1, <3>3, <3>4 DEF NoLineLost
    <2>8. Prefix'
        BY <1>1, <1>4, <2>1 DEF Prefix
    <2> QED
        BY <1>3, <1>6, <2>5, <2>6, <2>7, <2>8 DEF Pipe
<1>10. CASE Write /\ ~(Len(buffer) < BufferCap /\ ~TooLong)
    <2>1. /\ writer = "write" /\ writer' = (IF buffer = <<>> THEN "direct" ELSE "flush")
          /\ UNCHANGED <<buffer, writing, channel, echoed>>
        BY <1>10 DEF Write
    <2>2. buffer = <<>> => TooLong
        BY <1>10, EmptyLines, EchoAssumption
    <2>3. SeqsTyped' /\ Prefix'
        BY <1>1, <1>4, <2>1 DEF SeqsTyped, Prefix
    <2>4. Sane'
        BY <1>1, <1>4, <2>1, <2>2 DEF Sane, TooLong
    <2>5. NoLineLost'
        BY <1>1, <1>4, <1>5, <2>1 DEF NoLineLost
    <2> QED
        BY <1>3, <1>6, <2>3, <2>4, <2>5 DEF Pipe
<1>11. CASE PassOn
    <2>1. /\ writer = "flush" /\ writer' = IF Len(buffer) = 1 THEN "write" ELSE "flush"
          /\ echoed' = Append(echoed, Head(buffer)) /\ buffer' = Tail(buffer)
          /\ UNCHANGED <<channel, writing>>
        BY <1>11 DEF PassOn
    <2>2. buffer # <<>>
        BY <1>1, <2>1 DEF Sane
    <2>3. /\ Head(buffer) \in Lines /\ buffer' \in Seq(Lines) /\ Len(buffer') = Len(buffer) - 1
          /\ <<Head(buffer)>> \in Seq(Lines) /\ <<Head(buffer)>> \o buffer' = buffer
        BY <1>2, <2>1, <2>2, HeadTail
    <2>4. /\ echoed' \in Seq(Lines) /\ echoed' = echoed \o <<Head(buffer)>>
          /\ Len(echoed') = Len(echoed) + 1
        BY <1>2, <2>1, <2>3, SeqFacts
    <2>5. Len(buffer') <= BufferCap
        <3>1. Len(buffer) <= BufferCap /\ BufferCap \in Nat
            BY <1>1, EchoAssumption DEF SeqsTyped
        <3> QED
            BY <1>2, <2>3, <3>1
    <2>6. fetched' \in 0 .. Len(echoed')
        <3>1. fetched \in 0 .. Len(echoed) /\ fetched' = fetched
            BY <1>1, <1>4 DEF SeqsTyped
        <3> QED
            BY <1>2, <2>4, <3>1
    <2>7. SeqsTyped'
        BY <1>1, <1>4, <2>1, <2>3, <2>4, <2>5, <2>6 DEF SeqsTyped
    <2>8. Sane'
        <3>1. writer' = "flush" => buffer' # <<>>
            <4> SUFFICES ASSUME writer' = "flush" PROVE buffer' # <<>>
                OBVIOUS
            <4>1. Len(buffer) # 1
                BY <2>1
            <4>2. Len(buffer) > 0
                BY <1>2, <2>2, SeqFacts
            <4>3. Len(buffer') # 0
                BY <1>2, <2>3, <4>1, <4>2
            <4> QED
                BY <4>3, EmptyLines
        <3>2. Len(writing) = 1
            BY <1>1, <2>1 DEF Sane
        <3> QED
            BY <1>1, <1>4, <2>1, <3>1, <3>2 DEF Sane
    <2>9. NoLineLost'
        <3> DEFINE h == <<Head(buffer)>>
        <3>1. h \in Seq(Lines) /\ echoed' = echoed \o h /\ h \o buffer' = buffer
            BY <2>3, <2>4
        <3> HIDE DEF h
        <3>2. (echoed \o h) \o buffer' = echoed \o (h \o buffer')
            <4>1. echoed \in Seq(Lines) /\ h \in Seq(Lines) /\ buffer' \in Seq(Lines)
                BY <1>2, <2>3, <3>1
            <4> QED
                BY <4>1, Regroup, ZenonT(30)
        <3>3. echoed' \o buffer' = echoed \o buffer
            BY <3>1, <3>2, Zenon
        <3>4. echoed \o buffer \o writing \o channel \o AtHand = received
            BY <1>1, <2>1 DEF NoLineLost
        <3> QED
            BY <1>4, <1>5, <2>1, <3>3, <3>4 DEF NoLineLost
    <2>10. writer' \notin {"none", "done"}
        BY <2>1
    <2>11. (SeqsTyped /\ Sane /\ NoLineLost /\ writer \notin {"none", "done"})' => Prefix'
        BY LivePrefix, PTL
    <2>12. Prefix'
        BY <2>7, <2>8, <2>9, <2>10, <2>11
    <2> QED
        BY <1>3, <1>6, <2>7, <2>8, <2>9, <2>12 DEF Pipe
<1>12. CASE PassLong
    <2>1. /\ writer = "direct" /\ writer' = "receive" /\ buffer = <<>>
          /\ echoed' = echoed \o writing /\ writing' = <<>>
          /\ UNCHANGED <<channel, buffer>>
        BY <1>1, <1>12 DEF PassLong, Sane
    <2>2. echoed' \in Seq(Lines) /\ Len(echoed') = Len(echoed) + Len(writing)
          /\ Len(writing) \in Nat
        BY <1>2, <2>1, ConcatProperties, SeqFacts
    <2>3. fetched' \in 0 .. Len(echoed')
        <3>1. fetched \in 0 .. Len(echoed) /\ fetched' = fetched
            BY <1>1, <1>4 DEF SeqsTyped
        <3> QED
            BY <1>2, <2>2, <3>1
    <2>4. SeqsTyped'
        BY <1>1, <1>4, <2>1, <2>2, <2>3, EmptyLines DEF SeqsTyped
    <2>5. Sane'
        BY <1>1, <1>4, <2>1 DEF Sane
    <2>6. NoLineLost'
        <3>1. echoed \o buffer = echoed /\ echoed' \o buffer' = echoed'
            BY <1>2, <2>1, <2>2, SeqFacts
        <3>2. echoed' \o writing' = echoed'
            BY <2>1, <2>2, SeqFacts
        <3>3. echoed \o buffer \o writing \o channel \o AtHand = received
            BY <1>1, <2>1 DEF NoLineLost
        <3> QED
            BY <1>4, <1>5, <2>1, <3>1, <3>2, <3>3 DEF NoLineLost
    <2>7. writer' \notin {"none", "done"}
        BY <2>1
    <2>8. (SeqsTyped /\ Sane /\ NoLineLost /\ writer \notin {"none", "done"})' => Prefix'
        BY LivePrefix, PTL
    <2>9. Prefix'
        BY <2>4, <2>5, <2>6, <2>7, <2>8
    <2> QED
        BY <1>3, <1>6, <2>4, <2>5, <2>6, <2>9 DEF Pipe
<1>13. CASE ReceiveEnds \/ WriteFails
    <2>1. /\ writer \in {"receive", "flush", "direct"} /\ writer' = "done" /\ buffer' = <<>>
          /\ echoed' = echoed /\ writing' \in {writing, <<>>} /\ channel' \in {channel, <<>>}
        BY <1>13 DEF ReceiveEnds, WriteFails
    <2>2. SeqsTyped'
        <3>1. Len(<<>>) <= BufferCap /\ Len(<<>>) <= ChannelCap
            BY EmptyLines, EchoAssumption
        <3>2. /\ received' = received /\ echoed' = echoed /\ fetched' = fetched
              /\ writing' \in Seq(Lines)
            BY <1>2, <1>4, <2>1, EmptyLines
        <3>3. buffer' \in Seq(Lines) /\ Len(buffer') <= BufferCap
            BY <2>1, <3>1, EmptyLines
        <3>4. channel' \in Seq(Lines) /\ Len(channel') <= ChannelCap
            BY <1>1, <2>1, <3>1, EmptyLines DEF SeqsTyped
        <3> QED
            BY <1>1, <3>2, <3>3, <3>4 DEF SeqsTyped
    <2>3. Sane' /\ Prefix' /\ NoLineLost'
        BY <1>1, <1>4, <2>1 DEF Sane, Prefix, NoLineLost
    <2> QED
        BY <1>3, <1>6, <2>2, <2>3 DEF Pipe
<1> QED
    BY <1>8, <1>9, <1>10, <1>11, <1>12, <1>13 DEF Writer

LEMMA NextPipe == Pipe /\ [Next]_vars => Pipe'
<1> SUFFICES ASSUME Pipe, [Next]_vars PROVE Pipe'
    OBVIOUS
<1>1. CASE Next
    BY <1>1, OutsidePipe, ReaderPipe, WriterPipe DEF Next
<1>2. CASE UNCHANGED vars
    <2> USE <1>2 DEF vars, clientVars, readVars, writeVars
    <2>1. PlainTyped' /\ SeqsTyped'
        BY DEF Pipe, PlainTyped, SeqsTyped
    <2>2. Sane' /\ Numbered' /\ NoLineLost' /\ Prefix'
        BY DEF Pipe, Sane, Numbered, NoLineLost, AtHand, Prefix
    <2> QED
        BY <2>1, <2>2 DEF Pipe
<1> QED
    BY <1>1, <1>2

-----------------------------------------------------------------------------
(* What the client gets, and what it does not.                              *)

\* A line that lost a character is passed on only as the last one, and past the buffer.
Sound ==
    \A i \in 1 .. Len(echoed) : echoed[i].whole \/ (i = sent /\ unended /\ i \in LongLines)

Unanswered == Len(received) - Len(echoed)

\* Once the writer has ended, the reader may take one more line in hand before it sees it.
Behind ==
    writer = "done" =>
        /\ Unanswered <= BufferCap + ChannelCap + 1
                         + (IF reader \in {"send", "done"} THEN 1 ELSE 0)
        /\ server = "accepting" /\ client # "reset" =>
               reader = "done" /\ Unanswered <= BufferCap

IInv == Pipe /\ Sound /\ Behind

LEMMA Lengths ==
    ASSUME Pipe
    PROVE  /\ Len(received) \in Nat /\ Len(echoed) \in Nat /\ Len(buffer) \in Nat
           /\ Len(writing) \in Nat /\ Len(channel) \in Nat /\ Len(AtHand) \in Nat
           /\ sent \in Nat /\ Len(received) <= sent
           /\ AtHand \in Seq(Lines)
           /\ Len(AtHand) = IF reader = "send" THEN 1 ELSE 0
           /\ Len(buffer) <= BufferCap /\ Len(channel) <= ChannelCap
           /\ BufferCap \in Nat /\ ChannelCap \in Nat
<1>1. /\ received \in Seq(Lines) /\ echoed \in Seq(Lines) /\ buffer \in Seq(Lines)
      /\ writing \in Seq(Lines) /\ channel \in Seq(Lines) /\ AtHand \in Seq(Lines)
    BY AtHandTyped DEF Pipe, SeqsTyped
<1>2. sent \in 0 .. MaxLines /\ Len(received) <= sent
    BY DEF Pipe, PlainTyped, Sane
<1>3. Len(AtHand) = IF reader = "send" THEN 1 ELSE 0
    BY EmptyLines DEF AtHand
<1> QED
    BY <1>1, <1>2, <1>3, SeqFacts, EchoAssumption DEF Pipe, SeqsTyped

\* As long as the writer lives, every line read and not passed on is in one of the places.
LEMMA LiveLengths ==
    ASSUME Pipe, writer \notin {"none", "done"}
    PROVE  Unanswered = Len(buffer) + Len(writing) + Len(channel) + Len(AtHand)
<1>1. /\ received \in Seq(Lines) /\ echoed \in Seq(Lines) /\ buffer \in Seq(Lines)
      /\ writing \in Seq(Lines) /\ channel \in Seq(Lines) /\ AtHand \in Seq(Lines)
    BY AtHandTyped DEF Pipe, SeqsTyped
<1>2. \A s, t \in Seq(Lines) : s \o t \in Seq(Lines) /\ Len(s \o t) = Len(s) + Len(t)
    BY ConcatProperties
<1> DEFINE a == echoed \o buffer
           b == a \o writing
           c == b \o channel
<1>3. a \in Seq(Lines) /\ Len(a) = Len(echoed) + Len(buffer)
    BY <1>1, <1>2
<1> HIDE DEF a
<1>4. b \in Seq(Lines) /\ Len(b) = Len(a) + Len(writing)
    BY <1>1, <1>2, <1>3
<1> HIDE DEF b
<1>5. c \in Seq(Lines) /\ Len(c) = Len(b) + Len(channel)
    BY <1>1, <1>2, <1>4
<1> HIDE DEF c
<1>6. Len(c \o AtHand) = Len(c) + Len(AtHand)
    BY <1>1, <1>2, <1>5
<1>7. c \o AtHand = received
    BY DEF a, b, c, Pipe, NoLineLost
<1> QED
    BY <1>3, <1>4, <1>5, <1>6, <1>7, Lengths DEF Unanswered

LEMMA LiveBound ==
    ASSUME Pipe, writer \notin {"none", "done"}
    PROVE  Unanswered <= BufferCap + ChannelCap + 1 + (IF reader = "send" THEN 1 ELSE 0)
<1>1. Len(writing) <= 1
    <2>1. CASE writer = "receive"
        BY <2>1, EmptyLines DEF Pipe, Sane
    <2>2. CASE writer \in {"write", "flush", "direct"}
        <3>1. Len(writing) = 1
            BY <2>2 DEF Pipe, Sane
        <3> QED
            BY <3>1
    <2> QED
        BY <2>1, <2>2 DEF Pipe, PlainTyped
<1> DEFINE b == Len(buffer)
           w == Len(writing)
           c == Len(channel)
           h == Len(AtHand)
<1>2. /\ b \in Nat /\ w \in Nat /\ c \in Nat /\ h \in Nat
      /\ b <= BufferCap /\ c <= ChannelCap /\ BufferCap \in Nat /\ ChannelCap \in Nat
      /\ h = IF reader = "send" THEN 1 ELSE 0
    BY Lengths
<1>3. Unanswered = b + w + c + h
    BY LiveLengths
<1>4. w <= 1
    BY <1>1
<1> HIDE DEF b, w, c, h
<1> QED
    BY <1>2, <1>3, <1>4

\* A line put behind others.
LEMMA OneMore ==
    ASSUME NEW s \in Seq(Lines), NEW t \in Seq(Lines), Len(t) = 1
    PROVE  /\ s \o t \in Seq(Lines)
           /\ Len(s \o t) = Len(s) + 1 /\ (s \o t)[Len(s) + 1] = t[1]
           /\ \A i \in 1 .. Len(s) : (s \o t)[i] = s[i]
<1>1. /\ s \o t \in Seq(Lines) /\ Len(s \o t) = Len(s) + Len(t)
      /\ \A i \in 1 .. Len(s) + Len(t) : (s \o t)[i] = IF i <= Len(s) THEN s[i] ELSE t[i - Len(s)]
    BY ConcatProperties
<1>2. Len(s) \in Nat
    BY SeqFacts
<1>3. (s \o t)[Len(s) + 1] = t[1]
    <2>1. Len(s) + 1 \in 1 .. Len(s) + Len(t) /\ ~(Len(s) + 1 <= Len(s))
          /\ (Len(s) + 1) - Len(s) = 1
        BY <1>2
    <2> QED
        BY <1>1, <2>1
<1> QED
    BY <1>1, <1>2, <1>3

\* While the writer lives, the line it holds comes right after those before it.
LEMMA NextPassed ==
    ASSUME Pipe, PassLong
    PROVE  writing[1] = received[Len(echoed) + 1] /\ Len(echoed) + 1 <= Len(received)
<1> DEFINE rest == channel \o AtHand
<1>1. /\ echoed \in Seq(Lines) /\ writing \in Seq(Lines) /\ channel \in Seq(Lines)
      /\ AtHand \in Seq(Lines) /\ received \in Seq(Lines)
      /\ Len(writing) = 1 /\ buffer = <<>> /\ Len(echoed) \in Nat
    BY AtHandTyped, Lengths DEF Pipe, SeqsTyped, PassLong, Sane
<1>2. rest \in Seq(Lines) /\ echoed \o writing \in Seq(Lines) /\ echoed \o buffer = echoed
    BY <1>1, SeqFacts
<1>3. echoed \o buffer \o writing \o channel \o AtHand = received
    BY DEF Pipe, NoLineLost, PassLong
<1>4. ((echoed \o writing) \o channel) \o AtHand = (echoed \o writing) \o rest
    <2>1. channel \in Seq(Lines) /\ AtHand \in Seq(Lines) /\ echoed \o writing \in Seq(Lines)
        BY <1>1, <1>2
    <2> QED
        BY <2>1, Regroup, ZenonT(60)
<1>5. received = (echoed \o writing) \o rest
    BY <1>2, <1>3, <1>4
<1> HIDE DEF rest
<1>6. /\ Len(echoed \o writing) = Len(echoed) + 1
      /\ (echoed \o writing)[Len(echoed) + 1] = writing[1]
    BY <1>1, OneMore
<1>7. /\ Len(echoed \o writing) <= Len(received)
      /\ \A i \in 1 .. Len(echoed \o writing) : received[i] = (echoed \o writing)[i]
    BY <1>2, <1>5, PrefixOf
<1> QED
    BY <1>1, <1>6, <1>7

LEMMA NextSound ==
    ASSUME Pipe, Sound, Next
    PROVE  Sound'
<1> USE DEF clientVars, readVars, writeVars
<1>1. Pipe' /\ Prefix' /\ Numbered'
    BY NextPipe DEF Pipe
<1>2. Len(echoed) \in Nat /\ Len(received) \in Nat /\ sent \in Nat /\ Len(received) <= sent
    BY Lengths
<1>3. ASSUME PassOn \/ PassLong
      PROVE  Sound'
    <2> DEFINE n == Len(echoed) + 1
    <2>1. /\ UNCHANGED <<received, sent, unended>>
          /\ echoed \in Seq(Lines) /\ received \in Seq(Lines)
        BY <1>3 DEF PassOn, PassLong, Pipe, SeqsTyped
    <2>2. Len(echoed') = n /\ \A i \in 1 .. Len(echoed) : echoed'[i] = echoed[i]
        <3>1. CASE PassOn
            <4>1. echoed' = Append(echoed, Head(buffer)) /\ Head(buffer) \in Lines
                BY <3>1, HeadTail DEF PassOn, Pipe, SeqsTyped, Sane
            <4> QED
                BY <2>1, <4>1, AppendProperties
        <3>2. CASE PassLong
            <4>1. echoed' = echoed \o writing /\ writing \in Seq(Lines) /\ Len(writing) = 1
                BY <3>2 DEF PassLong, Pipe, SeqsTyped, Sane
            <4> QED
                BY <2>1, <4>1, OneMore
        <3> QED
            BY <1>3, <3>1, <3>2
    <2>3. echoed'[n] = received[n] /\ n \in 1 .. Len(received)
        BY <1>1, <1>2, <2>1, <2>2 DEF Prefix
    <2>4. received[n].number = n /\ (received[n].whole \/ (n = sent /\ unended))
        BY <2>3 DEF Pipe, Numbered
    <2>5. received[n].whole \/ (n = sent /\ unended /\ n \in LongLines)
        <3>1. CASE PassOn
            \* The line that made the buffer overflow comes later.
            <4>1. /\ writer = "flush" /\ writer' \in {"write", "flush"}
                  /\ Len(writing') = 1 /\ UNCHANGED <<received, sent>>
                BY <3>1 DEF PassOn, Pipe, Sane
            <4>2. Len(received') - Len(echoed') >= 1
                <5>1. (Pipe /\ writer \notin {"none", "done"}
                         => Unanswered = Len(buffer) + Len(writing) + Len(channel) + Len(AtHand))'
                    BY LiveLengths, PTL
                <5>2. (Pipe => /\ Len(buffer) \in Nat /\ Len(channel) \in Nat
                               /\ Len(AtHand) \in Nat)'
                    BY Lengths, PTL
                <5> QED
                    BY <1>1, <4>1, <5>1, <5>2 DEF Unanswered
            <4>3. n < sent
                BY <1>2, <2>2, <4>1, <4>2
            <4> QED
                BY <1>2, <2>4, <4>3
        <3>2. CASE PassLong
            <4>1. received[n] = writing[1] /\ writing[1].number \in LongLines
                BY <3>2, NextPassed DEF PassLong, Pipe, Sane
            <4> QED
                BY <2>4, <4>1
        <3> QED
            BY <1>3, <3>1, <3>2
    <2> HIDE DEF n
    <2>6. \A i \in 1 .. n : i \in 1 .. Len(echoed) \/ i = n
        BY <1>2 DEF n
    <2> QED
        BY <2>1, <2>2, <2>3, <2>5, <2>6 DEF Sound
<1>4. ASSUME ~PassOn, ~PassLong
      PROVE  Sound'
    <2>1. echoed' = echoed
        BY <1>4 DEF Next, Accept, AcceptFails, Reader, ReadLine, ReadEnds, SendLine, SendFails,
               Writer, Receive, ReceiveEnds, Write, WriteFails,
               ClientSends, ClientCloses, ClientResets, ClientFetches
    <2>2. (sent' = sent /\ unended' = unended) \/ ~unended
        BY DEF Next, Accept, AcceptFails, Reader, ReadLine, ReadEnds, SendLine, SendFails,
               Writer, Receive, ReceiveEnds, Write, PassOn, PassLong, WriteFails,
               ClientSends, ClientCloses, ClientResets, ClientFetches, Pipe, Sane
    <2> QED
        BY <2>1, <2>2 DEF Sound
<1> QED
    BY <1>3, <1>4

LEMMA NextBehind ==
    ASSUME Pipe, Behind, Next
    PROVE  Behind'
<1> USE DEF clientVars, readVars, writeVars
<1>1. /\ Len(echoed) \in Nat /\ Len(received) \in Nat /\ BufferCap \in Nat
      /\ ChannelCap \in Nat /\ Len(buffer) \in Nat /\ Len(buffer) <= BufferCap
      /\ Len(channel) \in Nat /\ Len(channel) <= ChannelCap
    BY Lengths
<1>2. CASE AcceptFails
    <2>1. /\ received' = received /\ echoed' = echoed /\ server' = "ended"
          /\ writer' = Dropped(writer) /\ reader' = Dropped(reader)
        BY <1>2 DEF AcceptFails
    <2>2. CASE writer = "none"
        BY <2>1, <2>2 DEF Behind, Dropped
    <2>3. CASE writer = "done"
        <3>1. reader' = "done"
            BY <2>1, <2>3 DEF Dropped, Pipe, Sane
        <3>2. Unanswered <= BufferCap + ChannelCap + 2
            BY <1>1, <2>3 DEF Behind, Unanswered
        <3> QED
            BY <1>1, <2>1, <3>1, <3>2 DEF Behind, Unanswered
    <2>4. CASE writer \notin {"none", "done"}
        <3>1. reader' = "done"
            BY <2>1, <2>4 DEF Dropped, Pipe, Sane
        <3>2. Unanswered <= BufferCap + ChannelCap + 2
            BY <1>1, <2>4, LiveBound DEF Unanswered
        <3> QED
            BY <1>1, <2>1, <3>1, <3>2 DEF Behind, Unanswered
    <2> QED
        BY <2>2, <2>3, <2>4
<1>3. CASE ReceiveEnds
    <2>1. /\ reader = "done" /\ reader' = "done" /\ channel = <<>> /\ writing = <<>>
          /\ received' = received /\ echoed' = echoed /\ writer = "receive"
        BY <1>3 DEF ReceiveEnds, SendersGone, Pipe, Sane
    <2>2. Unanswered = Len(buffer)
        BY <1>1, <2>1, EmptyLines, Lengths, LiveLengths
    <2> QED
        BY <1>1, <2>1, <2>2 DEF Behind, Unanswered
<1>4. CASE WriteFails
    <2>1. /\ writer \in {"flush", "direct"} /\ Len(writing) = 1 /\ client' = "reset"
          /\ received' = received /\ echoed' = echoed /\ reader' = reader
        BY <1>4 DEF WriteFails, Pipe, Sane
    <2>2. Unanswered <= BufferCap + ChannelCap + 1 + (IF reader = "send" THEN 1 ELSE 0)
        BY <2>1, LiveBound
    <2> QED
        BY <1>1, <2>1, <2>2 DEF Behind, Unanswered
<1>5. CASE ReadLine /\ writer = "done"
    <2>1. /\ reader = "read" /\ reader' = "send" /\ echoed' = echoed
          /\ Len(received') = Len(received) + 1
          /\ UNCHANGED <<server, client, writer>>
        <3>1. received \in Seq(Lines)
            BY DEF Pipe, SeqsTyped
        <3>2. \E line : received' = Append(received, line)
            BY <1>5 DEF ReadLine
        <3>3. received' \in Seq(Lines)
            BY NextPipe DEF Pipe, SeqsTyped
        <3>4. Len(received') = Len(received) + 1
            BY <3>1, <3>2
        <3> QED
            BY <1>5, <3>4 DEF ReadLine
    <2> QED
        BY <1>1, <1>5, <2>1 DEF Behind, Unanswered
<1>6. CASE \/ ReadEnds \/ SendFails
           \/ ClientSends \/ ClientCloses \/ ClientResets \/ ClientFetches
    <2>1. /\ UNCHANGED <<received, echoed, server, writer>>
          /\ reader' = reader \/ reader' = "done"
          /\ client' = "reset" \/ client # "reset"
        BY <1>6 DEF ReadEnds, SendFails, ClientSends, ClientCloses, ClientResets, ClientFetches
    <2> QED
        BY <1>1, <2>1 DEF Behind, Unanswered
<1>7. ASSUME writer # "done", ~AcceptFails, ~ReceiveEnds, ~WriteFails
      PROVE  writer' # "done"
    BY <1>7 DEF Next, Accept, Reader, ReadLine, ReadEnds, SendLine, SendFails, Writer, Receive,
           Write, PassOn, PassLong, ClientSends, ClientCloses, ClientResets, ClientFetches
<1>8. CASE writer = "done"
    <2>1. \/ AcceptFails \/ ReadLine \/ ReadEnds \/ SendFails
          \/ ClientSends \/ ClientCloses \/ ClientResets \/ ClientFetches
        BY <1>8 DEF Next, Accept, Reader, SendLine, Writer, Receive, ReceiveEnds, Write, PassOn,
               PassLong, WriteFails, Pipe, Sane
    <2> QED
        BY <1>2, <1>5, <1>6, <1>8, <2>1
<1> QED
    BY <1>2, <1>3, <1>4, <1>7, <1>8 DEF Behind

LEMMA InitIInv == Init => IInv
BY InitPipe, EmptyLines DEF IInv, Init, Sound, Behind

LEMMA NextIInv == IInv /\ [Next]_vars => IInv'
<1>1. ASSUME IInv, Next
      PROVE  IInv'
    BY <1>1, NextPipe, NextSound, NextBehind DEF IInv
<1>2. ASSUME IInv, UNCHANGED vars
      PROVE  IInv'
    <2>1. Pipe'
        BY <1>2, NextPipe DEF IInv
    <2>2. Sound' /\ Behind'
        BY <1>2 DEF IInv, Sound, Behind, Unanswered, vars, clientVars, readVars, writeVars
    <2> QED
        BY <2>1, <2>2 DEF IInv
<1> QED
    BY <1>1, <1>2

\* The inductive invariant: types, what the places of the tasks imply, the numbers of the
\* lines read, where those lines are, and how many are nowhere once the writer has ended.
THEOREM Inductive == Spec => []IInv
BY InitIInv, NextIInv, PTL DEF Spec

\* The types of the server's state; channel and buffer keep to their capacities.
THEOREM TypeCorrect == Spec => []TypeOK
<1>1. IInv => TypeOK
    BY DEF IInv, Pipe, PlainTyped, SeqsTyped, TypeOK
<1> QED
    BY <1>1, Inductive, PTL

\* However full channel, buffer and socket are, and however the two tasks interleave, no
\* line read is lost or overtaken while the write task lives.
THEOREM LinesKept == Spec => []NoLineLost
<1>1. IInv => NoLineLost
    BY DEF IInv, Pipe
<1> QED
    BY <1>1, Inductive, PTL

\* However the connection or the server ends, what the client was sent are its own lines
\* in order from the first on, whole but for a last one without a newline that was too
\* long for the buffer.
THEOREM EchoOrdered == Spec => []EchoedInOrder
<1>1. IInv => EchoedInOrder
    <2> SUFFICES ASSUME IInv, NEW i \in 1 .. Len(echoed)
                 PROVE  /\ echoed[i].number = i
                        /\ echoed[i].whole \/ (i = sent /\ unended /\ i \in LongLines)
        BY DEF EchoedInOrder
    <2>1. Prefix /\ Numbered /\ Sound
        BY DEF IInv, Pipe
    <2>2. i \in 1 .. Len(received) /\ echoed[i] = received[i]
        BY <2>1, Lengths DEF Prefix, IInv
    <2> QED
        BY <2>1, <2>2 DEF Numbered, Sound
<1> QED
    BY <1>1, Inductive, PTL

\* However the connection or the server ends, no more lines go unanswered than channel,
\* buffer and both tasks hold, and no more than the buffer holds when the writer ends
\* in its own time.
THEOREM LossIsBounded == Spec => []LossBounded
<1>1. IInv => LossBounded
    <2> SUFFICES ASSUME IInv
                 PROVE  /\ Unanswered <= BufferCap + ChannelCap + 2
                        /\ (writer = "done" /\ server = "accepting" /\ client # "reset")
                              => Unanswered <= BufferCap
        BY DEF LossBounded, Unanswered
    <2>1. Pipe /\ Behind /\ BufferCap \in Nat /\ ChannelCap \in Nat /\ Unanswered \in Int
        BY Lengths DEF IInv, Unanswered
    <2>2. CASE writer = "none"
        <3>1. Unanswered = 0
            BY <2>1, <2>2, EmptyLines DEF Pipe, Sane, Unanswered
        <3> QED
            BY <2>1, <2>2, <3>1
    <2>3. CASE writer = "done"
        BY <2>1, <2>3 DEF Behind
    <2>4. CASE writer \notin {"none", "done"}
        BY <2>1, <2>4, LiveBound
    <2> QED
        BY <2>2, <2>3, <2>4
<1> QED
    BY <1>1, Inductive, PTL
=============================================================================
