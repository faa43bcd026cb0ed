# tcp_to_can: a TLA+ model, its checks and its proofs

The repository holds two programs. `c_tcp_to_can` is a gateway client in C: it
keeps a TCP connection to a TCP-to-CAN device, sends CAN commands to a power
converter (DC/DC) and its battery (BMS), and keeps a picture of what they
report. `r_tcp_to_can` is a line server in Rust that echoes what clients send.
This directory models both, and an earlier client that the repository keeps
beside the first (`dev_can.c`), checks the models with TLC, and proves with TLAPS
every safety property of every part that is modelled, for every value of the
constants, and that the ring is a FIFO and the list a deque. What needs fairness
stays with TLC.

## 1. The system

### Parts, state, operations

| Part | Source | State | Operations |
|---|---|---|---|
| Transmit ring | `ringbuffer.c` | `buf`, `size`, free-running `front` and `rear` | init, clr, len, free_space, put, get |
| Gateway client | `main.c` | the socket, `is_connected`, `init_flag`, `recv_frame`, the ring | `main` (connect, start threads), `pthread_loop` (issue commands), `thread_client` (read, reconnect, send), `reconnect` |
| Converter commands | `ll_es_can_pro.c`, `ll_socket_send` and `pack_msg_to_frame` of `main.c` | none of their own; they put into the ring | 17 commands |
| Device mirror | `fml_can_device.c`, `ll_es_can_pro.h` | `g_dc_can_data`, 53 members written | `can_device_msg_parse` and the four functions behind it |
| Times | `can_msg.c` | none; `time_subtrack` compares two times | the difference of two times, in milliseconds |
| Message list | `can_msg_list.c` | head, tail, len, the links of the nodes, iterators | new, destroy, push and pop at both ends, find, at, remove, iterate |
| Frame client | `dev_can.c`, `can_custom_lib.c` | two lists, two mutexes, a semaphore, counters, a socket | open, receive thread, read, get, write, close |
| Line server | `r_tcp_to_can/src/main.rs` | per connection: a channel, a BufWriter, two tasks | accept, read lines, write lines |

The rest is printing (the other half of `can_msg.c`), helpers nobody calls (`utility.c`,
`my_alg.c`), vendored code (`log.c`, `argparse.h`), a window layout nobody loads
(`main.slint`) and build files.

### How the parts interact

```
 pthread_loop --commands--> ring_buf_put [ring] ring_buf_get --frames--> thread_client --send--> device
                                                                          thread_client <--read-- device
                                                                          thread_client --> can_device_msg_parse --> mirror
 main: socket, connect, fcntl, then creates both threads
 is_connected: written by main and thread_client, read by both threads
```

The two threads share the ring and `is_connected`. There is a mutex
(`usr_data_mutex`) and nobody locks it. `dev_can.c` is an earlier client with the
same job that `main.c` does not use; it shares its lists between a receive
thread and its callers, each under a mutex.

### What is hard about it, and what makes each part correct

* **Ring.** A put and a get of two threads overlap byte by byte, without a lock;
  indices wrap at 2^32; a full and an empty ring look alike once masked. Correct:
  the two copies never meet in a cell, bytes come out once and in order, lengths
  are exact.
* **Gateway client.** The result of every put, every send and of a short read is
  ignored; a frame that does not fit is stored in part; the connection may go at
  any point, be noticed late or never be made again; `send` may raise SIGPIPE.
  Correct: frames leave whole, once, in order, and none disappears silently;
  what is queued leaves; a loss is noticed and repaired.
* **Commands.** Seven bit-fields and six bytes filled by hand, seventeen times;
  signed values, a division, a cast. Correct: a receiver reads the command and
  the value that was meant.
* **Mirror.** Fifty-odd fields from words with swapped bytes, a `case` without a
  `break`. Correct: every member is what the device last said of it.
* **List.** Pointers in two directions, removal during iteration. Correct: it is a
  deque; no node is leaked, lost or freed in place.
* **Frame client.** A receive thread that nothing ends, callers that share two
  lists under a mutex each, counters without one; a close that frees everything
  after a second; a get that looks at one list and pops from the other; seven
  stages of opening, each with its own clean-up. Correct: frames are handed out
  once, in the order they came; a mutex taken is released; counters count what
  they say; nothing is leaked, and nobody uses what has been freed.
* **Times.** A borrow between microseconds and seconds. Correct: the difference of
  two times is what has passed between them.
* **Line server.** Backpressure across a bounded channel, buffering, two tasks
  that end at different times. Correct: lines come back, in order; no task is
  left behind.

`PROJECT.json` lists the hazards one by one, each at its line with the properties
that watch it.

## 2. The modules

| Module | Models | Extends or instantiates |
|---|---|---|
| `ByteFifo` | abstract: what the ring promises | - |
| `RingBuffer` | `ringbuffer.c`, one shared memory access per step | instantiates `ByteFifo` (refinement) |
| `RingBufferProofs` | the proofs about the ring, and that it is a `ByteFifo` | `RingBuffer`, TLAPS |
| `GatewayClient` | `main.c` and the connection | extends `ByteFifo`: the ring is used through its abstract specification |
| `GatewayProofs` | the proofs about threads, connection, reads and the bytes sent | `GatewayClient`, TLAPS |
| `CanFrame` | identifier bit-fields and big-endian words | - |
| `CanFrameProofs` | lemmas: what goes into them comes out of them | `CanFrame`, TLAPS |
| `CanCommands` | `ll_es_can_pro.c`, `ll_socket_send`, packing | `CanFrame` |
| `CanTime` | `time_subtrack` of `can_msg.c` | - |
| `CanCommandsProofs` | the proofs about commands and times | `CanCommands`, `CanTime`, `CanFrameProofs` |
| `DeviceMirror` | `fml_can_device.c` | `CanFrame` |
| `DeviceMirrorProofs` | the proofs about the mirror | `DeviceMirror`, `CanFrameProofs` |
| `Deque` | abstract: what the list promises | - |
| `LinkedList` | `can_msg_list.c`, its pointers | instantiates `Deque` (refinement) |
| `LinkedListProofs` | the proofs about the list, and that it is a `Deque` | `LinkedList`, TLAPS |
| `DevCan` | `dev_can.c`, `open_can_socket` | - |
| `DevCanProofs` | the proofs about the frame client | `DevCan`, TLAPS |
| `EchoServer` | `main.rs` | - |
| `EchoServerProofs` | the proofs about it | `EchoServer`, TLAPS |

A module `MCx` gives module `x` the constants that a `.cfg` cannot write down.
Operators whose comment says *Slip* are no part of a model: each is a definition
of the model as a plausible mistake would have it, and stands beside the right
one to show which property notices the mistake. `PROJECT.json` pairs them.
`MCMessages` holds `CanCommands`, `DeviceMirror` and `CanTime`: the two directions of
the exchange with the converter, and the times that waiting for answers was to
compare. They share no state; a behaviour of it is one of one of them.

### Ring: `RingBuffer`

`front`, `rear` and `buf` are the C fields. `put` and `get` are the locals of a
call under way: the length after the cut to what fits, the length of the first
`memcpy`, the bytes copied so far. `PutBegin` reads the other side's index and
computes both lengths (lines 80-82), `PutCopy` copies one byte of either `memcpy`
(83-84), `PutEnd` stores the index (85); `GetBegin`, `GetCopy`, `GetEnd` likewise.
In the compiled program, whose disassembly is in `tcp_to_can.rasm`, put loads
`front` and then `rear`, makes two calls of `memcpy` and then adds to `rear`; get
does the same with the sides exchanged. x86 does not reorder stores with older
loads or stores, nor loads with older loads, so the interleavings of these steps
are the ones the build can show. `rear` is stored by the writer only, so that
reading it in `PutBegin` in the same step as `front` is no loss.

Indices are counted modulo `Modulus = Size * Turns`. The program has 2^32, a
multiple of every power of two: what is proved for every `Turns` holds for it.
The bytes are numbers, their position in the stream of bytes accepted; the code
never looks at them.

`ByteFifo` is the abstract ring: a put decides how many bytes it will append
from the room it sees and appends them later; a get decides how many it will
remove and removes them later. `ImplementsFifo` says that the ring is one, with
the stored bytes read off `front`, `rear` and `buf`.

### Gateway client: `GatewayClient`

Three threads with a program counter each (`main`, `loop`, `client`). `main`
performs `socket`, `connect`, `fcntl` and two `pthread_create`s, each of which may
fail as in the code. `pthread_loop` wakes (`LoopWake`, which looks at
`is_connected` once), and then issues the commands of a round, each in two steps,
`IssueStart` and `IssueFinish`, as a put has two in `ByteFifo`. `thread_client`
repeats: read (`ReadBytes`, `ReadNothing`, `ReadEof`, `ReadError`), or
`Reconnect` when `is_connected` is 0; take a frame from the ring (`TakeStart`,
`TakeFinish`); `Send`; `Nap`.

The connection (`sock`) is external: up, half closed by the peer (`fin`), reset
with the error pending (`reset`, or `broken` after a close), error reported
(`down`). Reads and sends return what Linux returns in each of these: the pending
error once and then the end of the stream; a send after it raises SIGPIPE. The
peer may send any number of bytes, close or reset at any time.

Bytes are numbered, so that a torn, doubled or reordered frame shows. What a frame
contains is not looked at here.

### Commands and mirror: `CanFrame`, `CanCommands`, `DeviceMirror`

`Commands` is the table of what the seventeen functions pass on; `Packed` is
`ll_socket_send` and `pack_msg_to_frame`; `Issue` is a call with its put and its
return value, against a ring reduced to the room it has. `Heard` and
`HeardValue` are the receiver, by the same layout.

`SignalRows`, `DcdcMeterRows` and `BmsMeterRows` are the assignments of the `case`s:
which message carries which member in which word. `FallThrough` is the missing
`break`. `Store` turns words into the member's C type. The mirror starts at zero,
as a global without an initializer does. `RunningFlag` is
`ll_es_can_get_runningflag`, which reads one bit of the mirror; `Faithful` says of
it what it says of the members.

### Times: `CanTime`

One step is a call of `time_subtrack`, with any two times that gettimeofday may
give. `Rel` is the subtraction with its borrow, `Millis` the rounding. The wait for
answers that used it is under `#if 0`: what is checked is what a caller could rely
on.

### List: `LinkedList`

`head`, `tail`, `len`, and `prev`, `next`, `val` as functions on nodes. One action
per function; `Rpush`, `Lpush`, `Rpop`, `Lpop`, `Remove` assign the links as the code
does. Freed nodes keep their links, so that following one is noticed. Callers
keep the contract that the code relies on: they push only a node that is in no
list, remove only one that is in this list, destroy a list once and without an
iterator on it, and while an iteration has nodes to come they take out only the
node it returned last. `IterationComplete` shows that this much is allowed.

### Frame client: `DevCan`

Three kinds of actors. The application opens (`OpenClient`, or `OpenFails` at any
of its seven stages) and closes (`CloseSocket` up to the sleep of a second,
`CloseFree` after it). A receive thread per client ever opened, for it never ends,
reads (`ReadCall`, then `ReadBytes` or `ReadNothing`: `read` looks the descriptor
up when it is called, so that closing it does not wake the thread, and the number
may later name another connection), makes a frame (`FrameNew`), inserts it
(`Insert`, `InsertLeave`) and posts the semaphore (`Post`). Callers read
(`ReadEnter`, `ReadPop`, `ReadLeave`), get (`GetEnter`, `GetPop`, `GetLeave`) and
write (`Write`, then `Load` and `Store` of `snd_frame_cnt++`). What is done under a
mutex and touches only what the mutex protects is one step with the lock.

A frame is the stretch of the stream that its `read` returned, so that a lost,
doubled, reordered or torn one shows. Nothing looks at its bytes before
`read_can_frame`, so that they are chosen there, from `Frames`. What becomes of them on
the way, through a `can_frame_t` and back into a `socket_frame_t` one byte off, is
`MaskedId` and `ReadBack`; the last byte handed out is read from behind the block, and
is any of `Strays`. What `write_can_frame` sends is left out, and with it that it
changes the identifier in the frame it is given.
Nothing in the repository fills `frame_send_list`: it is always empty, and left
out, with the pop from it that fails. `rcv_frame_cnt` is written and never read,
and left out too.

The application keeps the contract that any C interface has: it closes when no
call is under way, uses no client it has closed, and its pointer is NULL when it
has none. A step that uses NULL or a freed client sets `wild` to its actor and ends the
behaviour, as nothing is known from then on; so does SIGPIPE, which nobody catches
(`WriteKills`). `Patient` says whether
the second that `close_can` sleeps is long enough for the thread to finish what it
had begun; with `FALSE` it may take any time.

### Line server: `EchoServer`

One connection with its two tasks; connections share nothing but `main`, whose
end (`AcceptFails`) drops them all. tokio is external: channel, BufWriter and
runtime by what they document. A line carries its number and whether `buf.pop()`
took its newline or a character of its text. `LongLines` are too long for the
BufWriter, which passes them on past its buffer (`PassLong`); the others all have one
length, of which `BufferCap` fit.

## 3. The runs

| Run | Instance | What it shows |
|---|---|---|
| `ring` | 4 cells, indices wrap at 8, requests of 1 and 3 bytes, 12 bytes in all | all properties of the ring, and the refinement |
| `gateway` | ring of 5, frames of 2, 5 commands, 3 bytes inbound | safety of the client under all faults |
| `gateway_live` | ring of 3, frames of 2, 4 commands, 1 byte inbound | `Drained`, `LossNoticed` |
| `reconnect` | as `gateway_live` | finding: the connection never comes back |
| `messages` | edge values; a ring of 33 bytes; 10 reports, 2 contents; 100 pairs of times | the commands are understood, the mirror is faithful but for the current limits, and by how much `time_subtrack` may err |
| `limits` | as `messages` | finding: current limits are overwritten by voltage limits |
| `devcan` | 2 callers, 2 opens, frames of 2 bytes, 2 bytes received, one lack of memory of each kind, 2 writes | frames, counters, memory and mutexes of the frame client |
| `read_deals` | as `devcan` | findings: the frame handed out is not the one received, and stays counted |
| `receiver_freed` | as `devcan`, with `Patient` | finding: the receive thread outlives its client |
| `list` | 3 nodes, 2 values, 4 visits per iterator | the list is a deque |
| `echo` | channel 2, buffer 1, socket 1, 6 lines, two of them long | lines are kept, few are lost, tasks end |
| `echo_answered` | as `echo` | finding: a line is not answered |

**Why the bounds are enough.** The ring of 4 with requests of 1 and 3 is full, empty,
split by its end and wrapped past the modulus within 12 bytes, with both calls
under way at once; the proofs cover every other size. The gateway needs a ring
that is no whole number of frames (as 2048 is none of 13) and one round and a
`sync` more than it holds: 5 commands of 2 bytes into 5 bytes give a short put;
3 bytes inbound are a frame and half a one. In the `live` runs the ring of 3 holds
one frame and half a one, and 4 commands are the first round. Commands are
independent of each other but for the room in the ring; 33 bytes are two frames
and the same 7 bytes over that 2048 leaves. Times differ by less than a second and
by more, with and without a borrow, and around the half that is rounded. The
frame client needs two callers to meet each other and the thread, two opens for a
retry after a failure and for the thread of the first to meet the socket of the
second, and two bytes for one frame, or for two that are torn; one sample of a frame,
an extended one, is enough for `ReadDeals`, as nothing else looks at bytes. Reports only
touch their own members, so a few of each kind, with the two devices' equal parameter
numbers, show every way to go wrong. Three nodes are a first, a middle and a last; the
fourth visit is of a node pushed again. Six lines fill channel, buffer and socket
and leave some over; the long ones, the second and the fifth, come upon a buffer that
is empty and one that is not, and can be the unended last.

Bounds in guards: `MaxBytes` (ring), `MaxFrames` and `MaxInbound` (gateway),
`MaxOpens`, `MaxBytes`, `MaxLacks` and `MaxWrites` (frame client), `MaxVisits` (list),
`MaxLines` (echo). Deadlock is not checked in `gateway`, `devcan`, `list` and `echo`,
where the bounds, the end of the program or of the list, a use of freed memory or a
signal stop a behaviour.

**Fairness.** `gateway_live` and `reconnect` assume weak fairness of main, of
pthread_loop and of thread_client: a thread that can run is run, which is what the
scheduler does, and no thread waits for a lock or blocks in a call (the socket is
non-blocking and `send` is given MSG_DONTWAIT). Nothing is assumed of the peer.
`devcan` assumes it of single steps only: of those inside a call, and inside the
thread's insertion, that wait for nobody. Callers need not call again, and the
fairness says nothing of a lock or a `read`, which may wait.
`echo` assumes weak fairness of the two tasks, which tokio polls when they are
woken; nothing is assumed of the client. The model is untimed: `sleep` and `usleep`
only mean that others run.

### What the runs found

* `limits`: the `case` of the battery's voltage limits lacks its `break`, so that the
  members declared for the current limits get the voltage limits.
* `read_deals`: `read_can_frame`, by its comment, reads a frame from the list of those
  received, and `can_id` has its flags. The function takes the 12 bytes it stored for
  the 13 of another type: head and flags are lost, identifier and data are shifted by
  one byte, and the last byte is what lies behind the block. `frame_cnt`, by its comment
  the number of frames not dealt with, does not go down.
* `reconnect`: the loop that logs "retry to connect sever!" calls `connect` on a
  socket that was connected before. It never succeeds; a new socket is needed.
* `receiver_freed`: the comment of `close_can` says that the receive thread is freed;
  the function frees the client only. A thread that waits in `read` meanwhile takes
  the bytes that come later, and counts, allocates and queues in freed memory.
* `echo_answered`: the comment says that the writer answers the client; the BufWriter
  is never flushed, so short exchanges are never answered.

Facts that are part of passing properties and worth knowing: `WholeFrames`,
`Framed` and `NoLoss` hold *until* a put is cut short, a send is cut short or fails;
after a first short put the ring never holds whole frames again unless the bytes
left over happen to complete one. `ParsedWhole` holds *until* a short read; nothing
brings the stream back into step. `SigpipeWindow`: a reset ends the whole program
if a frame is waiting in the turn that reports it. `EchoedInOrder`: a last
line without a newline loses its last character, and is sent back only if it is too long
for the BufWriter; else it is dropped with the buffer. `LossBounded`: what was in the
buffer at the end is lost, and what was on its way when `accept` failed. `Counted`: the
semaphore announces every frame that waits, also one that could not be queued;
`snd_frame_cnt` may miss writes. `Accounted`: what `open_client` leaks when it fails,
and the frame that an insertion without a node leaks. `Locking` and `Unlocking`:
`get_send_frame` leaves its mutex locked for good as soon as the receive list has a
frame. `ElapsedNeverShort`: with a borrow, `time_subtrack` gives up to two seconds too
much, never too little.

Seen while modelling, and without a run of its own: `ll_es_can_faultclear` returns the
number of bytes put into the ring, where the comment at `ll_es_can_pro.c:123` promises 0
or -1; nobody looks at the result.  `write_can_frame` logs that its client is NULL and
goes on to use it (`CallWithNull`).  The comment at `main.rs:38` says that the end of
either task ends the other; `try_join!` does so only when one panics, and a client that
closes its side and does not read keeps the write task waiting.

## 4. The proofs

Every invariant that a passing run checks is proved for every value of the
constants, and so are the refinements of the abstract ring and of the abstract
deque by the code's. The gateway's module uses the abstract ring; that what is
proved of it holds with the ring of the code in its place follows from the
refinement, an argument made here and not by the prover.

### The ring

`RingBufferProofs` proves, for every `Size > 0`, every `Turns > 1`, every set of
requests and every bound (`RingAssumption`):

| Theorem | Statement |
|---|---|
| `Inductive` | `Spec => []IInv` |
| `TypeCorrect` | `Spec => []TypeOK` |
| `LengthsExact` | `Spec => []LenExact` |
| `GetsInOrder` | `Spec => []GotInOrder` |
| `RaceFree` | `Spec => []NoRace` |
| `RingIsFifo` | `Spec => ImplementsFifo` |

None of the safety properties is inductive alone. That the two copies never meet
needs to know that a put's length still fits although the reader has moved on,
and that a get's length is still there although the writer has; that the bytes
handed out are right needs to know where all stored bytes lie; and all of it
needs the indices to tell the number of bytes across the wrap. `IInv` is the
conjunction: `TypeOK`; `LenExact`; `Contents` (the stored bytes lie in
consecutive cells from `front` on); `PutSane` and `GetSane` (a call under way
keeps within the room, or the bytes, there are now, and has copied what it
counts); `GotInOrder`.

The argument: reduction modulo `Modulus` and then modulo `Size` is reduction
modulo `Size` (`WrappedCell`), so a byte's cell is its distance from `front` plus
`front`, modulo `Size`, whichever `memcpy` moves it (`CellIs`); distances below
`Size` name different cells (`ModInjective`, `Apart`); room and length, computed
from wrapped indices, are the true ones (`LeftIs`). Then each action in turn
preserves each conjunct (`NextIInv`); `NoRace` follows from `IInv` alone: the put
writes at distances from `Used` up to `Size`, the get reads at distances below `Used`.

TLC checks `IInv` as an invariant in run `ring`.

`RingIsFifo`: under `IInv` the stored bytes are a stretch of consecutive numbers, as
`ByteFifo`'s queue is; appending to it and cutting it give stretches again
(`StretchConcat`, `StretchPart`). `PutBegin`, `PutEnd`, `GetBegin`, `GetEnd` and `clr`
are the FIFO's steps, the copies of single bytes stutter (`NextFifo`).

### The gateway client

For every frame length, capacity of the ring, number of commands and number of
bytes the peer sends (`GatewayAssumption`, `CapacityAssumption`):

| Theorem | Statement |
|---|---|
| `Inductive` | `Spec => []IInv` |
| `TypeCorrect` | `Spec => []TypeOK` |
| `LateBound` | `Spec => []LateCommands` |
| `SigpipeOnly` | `Spec => []SigpipeWindow` |
| `Parsed` | `Spec => []ParsedWhole` |
| `SentInOrder` | `Spec => []InOrder` |
| `NothingLost` | `Spec => []NoLoss` |
| `RingWhole` | `Spec => []WholeFrames` |
| `WireFramed` | `Spec => []Framed` |

`IInv` adds to `TypeOK` what the properties need and do not say. `Places`: threads
run only once created, sockets are connected before that, a put under way fits the
room there is now and a get the bytes there are now (or the ring could overflow).
`LateRound`: the commands left of the round under way are counted as late in
advance, and a lost connection stays lost. `ErrorSeen`: in the part of a turn that
sends, a reported error was reported in this turn. `InStep`: reads keep to the
peer's frames from the first on.

The second half of the module is about the bytes, with three more invariants. Only
four actions move bytes:
`IssueFinish`, `TakeFinish`, `Send` and `SendReset`, which drops what is in hand; all
others leave them alone and are taken together as `Still`. `Ordered`: what is on the wire is older
than what is in hand, that is older than what is in the ring, and everything is
older than the next command; it holds whatever fails, since pieces cut off a
sequence keep its order (`PartOrder`, `ConcatOrder`, `CutOrder`). `NoLoss` is inductive
given `IInv`: a whole put appends the next frame to the numbers so far
(`FirstFrames`), and a get and a whole send move the borders between the three parts
only. `Intact`: ring, hand and wire each consist of whole frames, and a get's length
is a frame's or 0; `FramewiseConcat` and `FramewiseCut` carry it over a put, a get and a
send, and `FramewiseWhole` is the way from it to `Whole`.

### The line server

For every capacity of the channel, of the buffer and of the socket, and every number
of lines (`EchoAssumption`), `EchoServerProofs` proves:

| Theorem | Statement |
|---|---|
| `Inductive` | `Spec => []IInv` |
| `TypeCorrect` | `Spec => []TypeOK` |
| `LinesKept` | `Spec => []NoLineLost` |
| `EchoOrdered` | `Spec => []EchoedInOrder` |
| `LossIsBounded` | `Spec => []LossBounded` |

`IInv` is the conjunction of `Pipe`, `Sound` and `Behind`. `Pipe`: the types
(`PlainTyped`, `SeqsTyped`), `Sane` (what the place of a task says of what it has in
hand), `Numbered` (lines are read in order, and only the last sent can lack its newline),
`NoLineLost` and `Prefix` (what has been passed on is where reading began). Each step of a
task moves the border between two neighbouring parts of the pipe, which leaves what they
are end to end as it was (`Regroup`, `HeadTail`), or appends the line read at its far end.
`NoLineLost` says nothing once the write task has ended and dropped its buffer; `Prefix` is
what is left of it then (`LivePrefix`). `Sound` says of the lines passed on that one without
its newline was too long for the buffer, since the buffer is passed on only when a later
line has come; with `Prefix` and `Numbered` it gives `EchoedInOrder`. `Behind` counts what
lies between reading and passing on.

### Commands and times

`CanFrameProofs` holds the facts about numbers. An identifier is a sum of seven
fields times their weights (`PackedSum`); a field between the fields below it and
those above it is read back by a division and a remainder (`OneDigit`), so that
`UnpackId` returns what fits and was given to `PackId` (`IdentifierKept`). The two
bytes of a word give the word back, with its sign (`WordKept`, `SignKept`).

`CanCommandsProofs` proves, for a ring of any size and any arguments of the
parameters' types (`CommandsAssumption`), and for all times (`TimeAssumption`):

| Theorem | Statement |
|---|---|
| `CommandsUnderstood` | `Spec => []Understood` |
| `PowerNearlyKept` | `Spec => []PowerKept` |
| `NeverShort` | `TimeSpec => []ElapsedNeverShort` |

The inductive invariant is `Sent`: the frame packed last is that of the last command
and its argument. What remains is about one frame: the table's rows fit the
bit-fields and no two have the same class and parameter (`CommandTable`), the payload
holds the argument's bytes where the receiver looks (`WordPlace`, `TimePlace`), and
C's division loses less than one of ten (`TenthTruncates`). `NeverShort` rests on
rounding being monotone and indifferent to whole seconds.

### The mirror

`DeviceMirrorProofs` proves, for every set of messages and of contents
(`MirrorAssumption`):

| Theorem | Statement |
|---|---|
| `TypeCorrect` | `MirrorSpec => []TypeOK` |
| `MirrorFaithful` | `MirrorSpec => []Faithful` |
| `LimitsTogether` | `MirrorSpec => []LimitsOfOneMessage` |

The layout is written out row by row (`LayoutTable`), and each row is shown to lie
within the report and to be as wide as its member (`LayoutSound`). A report selects
its own case (`Selected`, by `IdentifierKept`); the rows of a case are the message's own
but for the current limits of the voltage limits' message (`OwnRows`); swapping
bytes and assigning to a member makes of a word what its sender meant
(`StoreMeans`). So a member follows what was told of it (`Followed`), and the message
that falls through gives both current limits the voltage limits it carries
(`FallsThrough`). `LimitsOfOneMessage` is what is left of `LimitsReported`, which run
`limits` refutes: the two current limits are a pair last reported, as current limits or as
voltage limits, and no mixture. The three properties are inductive each, the second with `TypeOK`,
without which the running flag would be a bit of anything.

### The list

For every finite set of nodes and every set of values (`ListAssumption`; a program
has finitely many nodes), `LinkedListProofs` proves:

| Theorem | Statement |
|---|---|
| `Inductive` | `Spec => []IInv` |
| `TypeCorrect` | `Spec => []TypeOK` |
| `LinksTellOneList` | `Spec => []WellLinked` |
| `NodesOwned` | `Spec => []Ownership` |
| `PlacesAreExact` | `Spec => []PlacesExact` |
| `IterationsComplete` | `Spec => []IterationComplete` |
| `ListIsDeque` | `Spec => ImplementsDeque` |

`IInv` is the conjunction of `Typed`; `Linked` (the stored nodes are a chain: `head`
first, `tail` last, each one's `next` and `prev` its neighbours, none twice);
`Ownership`; and `Iterates` (what an iteration has yet to return lies ahead of it
without a gap). The model follows links by a recursive function, `Walk`. What it
computes is shown by naming the function that a chain makes it and by the least
place at which the two could differ (`WalkIs`), since sets of natural numbers have
least elements; no induction over data is needed beyond that. Each call then is an
operation on chains: longer at the end (`ChainLonger`) or the front (`ChainLower`),
rid of one node (`ChainRid`), turned round (`ChainTurned`), and an iteration's course
survives each (`CourseLonger`, `CourseLower`, `CourseRid`). With chains as sequences
(`LongerSeq`, `RidSeq`) the same facts give the deque's steps (`NextDeque`).

### The frame client

For any callers, opens, bytes, lacks of memory and writes, and frames of any length
(`DevCanAssumption`), `DevCanProofs` proves:

| Theorem | Statement |
|---|---|
| `Inductive` | `Spec => []IInv` |
| `TypeCorrect` | `Spec => []TypeOK` |
| `MutexesKept` | `Spec => []Locking` |
| `LockedForGood` | `Spec => StaysLocked` |
| `CountsTrue` | `Spec => []Counted` |
| `AccountsBalance` | `Spec => []Accounted` |
| `FramesDelivered` | `Spec => []Delivered` |
| `NumbersAndDataTold` | `\A f, g : ReadBack(f) # ReadBack(g) <=> Told(f, g)`, over all frames of 13 bytes |

`IInv` is a conjunction of six. `Typed`. `Placed`: the receive thread of the client
there is reads that client's connection until it is closed, threads of earlier
clients are anywhere but in the middle of using a client, and nobody is inside a call
while the client closes. `Locks`: a mutex is held by exactly those who are between its
lock and its unlock, and a caller about to pop has a frame to pop. `Tally`: the
counters, with a bound on `snd_frame_cnt` that leaves room for each caller between its
write and its store, or two of them could bring it above what was written. `Books`:
the accounts of memory, and no more descriptors in use than there were opens, so that
the next one finds a free number. `Stream`: the frames received fill the stream without
overlap, those of the list in order, each in one place. Each
conjunct has a lemma for the application's, the receive thread's and the callers'
steps (`ApplicationLocks`, `ReceiverLocks`, `CallerLocks`, and so on).

`NumbersAndDataTold` is about the 13 bytes of a frame, and measures what run `read_deals`
shows: what survives the mask and the shift by one byte still tells frames apart by
number and data (`ReadToldApart`), and by nothing else.

### Model-checked only

Liveness, which rests on fairness and so on ENABLED, which the prover does not
handle: `Drained`, `LossNoticed` and `TasksEnd`, and of `Unlocking` that the mutex of the
receive list is released again (that the other one is not is `LockedForGood`). The
findings are counterexamples of TLC.

## 5. Not modelled

* Time: periods of sleeping, the rate of commands.
* `can_msg.c` but for `time_subtrack`: printing, and what is under `#if 0`.
* `simple_send_can`, `send_can`, `simple_receive_can` and `receive_can` of
  `can_custom_lib.c`, and `print_can_frame_t`: they keep no state and have no caller.
* `my_alg.c` and `utility.c`: under `#if 0`, or macros and a parser without a caller.
* `frame_send_list` and `rcv_frame_cnt` of the frame client: never filled, never read.
* What a freed client's memory holds: behaviours end where it is first used.
* What `write_can_frame` writes, and the identifier it changes in its caller's frame.
* A failed `pthread_create` of `thread_client` is an outcome in `GatewayClient`, but no
  property is about it: nothing in the program could make it good.
* A ring of length 0: `main` asks for 2048, `RingAssumption` excludes 0.
* Panics of the Rust tasks, and with them the branch of `try_join!` that aborts.
* Logging, argument parsing (vendored), the window layout, build files.

## 6. Plan

Done, in this order: ring with its abstract FIFO and its proofs; gateway client;
commands; mirror; list with its abstract deque; line server; frame client; times; the
proof that the ring is its FIFO; the proofs of all safety properties of the gateway
and of the line server; those of the list, its refinement, the frame client, the
commands and the mirror.

Next:

1. The gateway client on the ring of the code: the refinement of `ByteFifo` used inside
   `GatewayClient`, by the prover and not by an argument.
2. An abstract line server, first in and first out, that `EchoServer` implements.
