# A TLA+ verification project for libximodem

libximodem is the Zimodem modem firmware, built as a host library for the
virtual modem of a Commander X16 emulator.  An *embedder* (the emulator)
creates one instance, calls `ximodem_poll` again and again, and exchanges bytes
and modem control lines with it.  Inside, `loop()` of the firmware answers AT
commands, keeps network calls, moves bytes between the terminal and a call, and
runs file transfers and small servers.

The project models the parts whose correctness depends on the order of events:
two threads at the byte rings, bytes on several paths under flow control, calls
that end while others are looked at, protocols over a bad line, an instance that
is made and freed around callbacks, sockets, a network and files that belong to
the host.  TLC checks the
models on small instances; TLAPS proves the most important results for all
values of the constants.

Paths are written as in `PROJECT.json`: `src/` is the root of the repository, and
`zimodem/` stands for `src/external/zimodem/`.

## 1. Inventory

What each component keeps, what it does, whom it talks to, what is hard about
it and what makes it correct.

### The host library (src/src/ximodem.cpp, src/compat/)

**Byte rings** (`struct Ring`).  State: an array and two atomic indices.
Operations: push, pop, peek, size, space, reset.  Used by both directions; the
thread that polls and the thread of the emulator work on the two ends with no
lock.  Hard: the interleaving of single accesses to memory, the wrap of the
indices, a reset beside a push.  Correct if it is a bounded FIFO queue and no
slot is written while it is read.  *Modelled: Ring, ByteFifo, RingProofs.*

**Output path and serial flow control** (`xi_dte_write`, `serout.ino`, the flush
functions of `zimodem.ino`).  State: TBUF (the firmware's output ring), `toDTE`,
the flow control type, XON state, RTS, the two bit rates.  A printed byte goes
through TBUF or past it, through a wait for RTS, into `toDTE`, and is held or
dropped when the rates differ.  Hard: bytes on two paths must keep their order,
three places drop bytes, RTS changes on another thread, waits inside a poll.
Correct if order is kept, nothing is lost outside the places that drop on
purpose, flow control stops the output, and a poll waits for nothing but the
terminal.
*Modelled: DteLink, DteLinkProofs.*

**Input path** (`ximodem_write`, `xi_dte_read`, `readSerialStream`).  State:
`toModem`, the line being typed.  *DteLink has its flow control characters,
Pacing the rate at which it accepts bytes, Stream the reads that wait for bytes;
command text and stream bytes towards a call are not modelled.*

**Signals and pins** (`ximodem_get_signal`, `set_signal`, `xi_pin_changed`).
Levels of six lines and a callback for the outputs.  Hard: the pins outlive the
instance that reports them, the callback runs inside a poll.  Correct if an
embedder that listens knows every output.  *Instance has the pins and the
callback; RTS acts in DteLink; DTR, DCD and RI in Calls.*

**Pacing** (`xi_pace_refill`).  Credits in bytes that grow with time up to a cap
and that reads and writes use up.  Hard: both directions refill both credits, the
rate changes under them, fractions must not be lost.  Correct if no more passes
than the line rate allows, and a reader that comes often gets its bytes.
*Modelled: Pacing, SerialProofs.*

**Instance life cycle** (`ximodem_create`, `_poll`, `_destroy`).  One instance at
a time, a fault latch.  Hard: `setup()` and `loop()` may throw, callbacks call
back into the library, globals of the firmware outlive the instance.  Correct if
nothing freed is used and a fault is final.  *Modelled: Instance,
InstanceProofs.*

**Sockets** (`WiFi.cpp`, `tls.cpp`, `ping.cpp`).  State: shared socket records,
a listener, TLS sessions on the descriptors of others.  Operations: connect,
write, read, peek, connected, stop, accept, ping.  Hard: copies, second
connects, descriptors the host gives out again, an end behind unread bytes, waits
in a write or a handshake.  Correct if every descriptor has one owner, an end
comes after the bytes, and a write ends.  *Modelled: Sockets, HostProofs.*

**The network of the host** (`WiFiClass`, `connectWifi`, `checkReconnect`, the
time server in `rt_clock.ino`).  State: a latch that makes the adapter look down
once, the retry of the connection, the deadline of the clock.  Hard: whoever looks
takes the latch; deadlines in milliseconds that wrap; answers that are lost.
Correct if no command meets a stale disconnection, the loop always goes on and
the clock asks again until it has the time.  *Modelled: HostNet, HostProofs; the calendar is
not.*

**Files** (`FS.cpp`, `reSaveConfig`).  The configuration and the file of the
firmware's first version: a save removes both, opens its own anew, prints,
checks the commas of what is there, and tries again.  Hard: the program dies between
two steps, a disk is full, a remove or an open fails.  Correct if boot never reads
a mixture and a save that says OK has stored.  *Modelled: Files, HostProofs.*

**Waiting reads** (`Stream.cpp`).  `readBytes`, `find`, `parseInt` and their kin
wait for each byte with a time limit.  Hard: `millis()` wraps, bytes come from
another thread between the look and the look at the clock.  Correct if a call
returns what it promises, and returns.  *Modelled: Stream, SerialProofs.*

**The rest of the compatibility layer**: String, Print, IPAddress, the shims of
the platform.  *Data and formatting: not modelled.*

### Calls (zimodem/)

**Connections** (`wificlientnode.ino`).  State: a linked list of connections,
each with a socket, an answered flag, rings to come, a mark and a deadline.
Constructor and destructor link and unlink, repair two pointers of command
mode, and start a walk that deletes what has expired.  Hard: destructors that
delete other connections, walks that delete as they go.

**Command mode: calls** (`zcommand.ino`: ATA, ATO, ATD, ATC, ATH, +++, the
acceptance and ringing of callers, `sendNextPacket`).  State: current and next
connection, the last caller, busy mode, S0.

**Stream mode** (`zstream.ino`).  State: the streamed connection, the last level
of DTR, the alarm of the ringer.  Callers that come meanwhile are turned away.

**Carrier, ring and baud state** (`zimodem.ino`: `checkOpenConnections`,
`checkBaudChange`).  The lines DCD and RI, and the temporary rate of S43.

The four call each other in every direction, so they are one module.  Correct
if no pointer outlives its connection, DCD and the rate follow the calls,
ringing ends and DTR hangs up.  *Modelled: Calls, CallsProofs.*

**Escape sequence** (`checkPlusPlusPlusEscape`).  Silence, three plusses,
silence.  *A free choice of each turn in Calls; its times are not modelled.*

**Packet flow and resend** (ATF2, ATF3, `reSendLastPacket`).  Packets with
headers, XON per packet, a window of three for resends.  *Not modelled yet.*

**S registers and other AT commands** (`zcommand.ino`, `connSettings.ino`).
Text to settings.  *The settings calls depend on are constants of Calls; the
commands that touch the network, the file or the input are in HostNet, Files and
Stream.  The parser is not modelled.*

### Transfers

**XModem and YModem** (`proto_xmodem.ino`).  Both sides of a transfer: block
numbers, checks, retries, prompts, time limits.  Hard: damaged and lost bytes,
answers without numbers, a block number that wraps.  Correct if the receiver
writes a beginning of the file and both sides report the truth.
*Modelled: XModem, XModemProofs.*

**ZModem** (`proto_zmodem.ino`).  A sender that streams blocks and looks back for
headers, a receiver that says at which position it is.  Hard: blocks on the line
behind a damaged one, headers left over from the opening, answers that come too
late, counters of errors on both sides that other events reset, files that are
continued, a full disk.  Correct if what is stored is a beginning of the file,
both sides report the truth, a fault is repaired and the exchange ends.
*Modelled: ZModem, ZModemProofs.*

**Kermit, Punter** (`proto_kermit.ino`, `proto_punter.ino`).  The same questions
with windows and acknowledged blocks.  *Not modelled yet.*

**HostCM, Comet64** (`proto_hostcm.ino`, `proto_comet64.ino`).  Disk servers on
the serial line: open files, requests with a checksum, replies.  *Not modelled
yet.*

### State that outlives a run

**Configuration and listeners, phonebook** (`zcommand.ino`,
`wifiservernode.ino`, `phonebook.ino`).  Text files rewritten in place, read at
boot.  Hard: a crash between open and close.  *The configuration is in Files.
The other two are written the same way and not read back afterwards: not
modelled.*

### The rest

**Clock** (`rt_clock.ino`): *when it asks is in HostNet; calendar arithmetic is
not modelled.*
**Ping** (`ping.cpp`): *its descriptors are in Sockets.*
**PETSCII** (`pet2asc.ino`): two tables and a telnet filter.  *Not modelled.*
**SLIP and PPP** (`zslipmode.ino`, `zpppmode.ino`): framing for lwIP, which the
host build does not have.  *Not modelled.*
**Print mode, configuration menus, shell, FTP, HTTP, IRC, session log**:
dialogues and formatting over the components above.  *Not modelled.*
**SSH, OpenSSL, libssh2, build files**: third-party code behind a socket
interface, and no behaviour.  *Not modelled.*

## 2. Modules

| Module | Models | Extends |
|---|---|---|
| `ByteFifo` | what the rings promise: a bounded queue that can be discarded | |
| `Ring` | `struct Ring`, one access to memory a step; refines `ByteFifo` | |
| `RingProofs` | its theorems | `Ring`, `TLAPS` |
| `DteLink` | the output path, both threads, all waits | |
| `DteLinkProofs` | its theorems | `DteLink`, `TLAPS` |
| `Calls` | connections, command mode, stream mode, carrier and rate | |
| `CallsProofs` | its theorems | `Calls`, `TLAPS` |
| `XModem` | sender, receiver and line of XModem and YModem | |
| `XModemProofs` | its theorems | `XModem`, `TLAPS` |
| `ZModem` | sender, two receivers and line of ZModem | |
| `ZModemProofs` | its theorems | `ZModem`, `TLAPS` |
| `Instance` | instances, pins and callbacks | |
| `InstanceProofs` | its theorems | `Instance`, `TLAPS` |
| `Pacing` | credits, budgets, reads and writes of the link | |
| `Sockets` | clients, TLS clients, listener, ping, host and peers | |
| `HostNet` | WiFi state, connection, reconnection, commands, clock | |
| `Files` | the configuration file and what happens to it | |
| `Stream` | the reads that wait for bytes | |
| `SerialProofs` | the theorems of `Pacing` and `Stream` | both, `TLAPS` |
| `HostProofs` | the theorems of `HostNet`, `Files` and `Sockets` | the three, `TLAPS` |
| `MCLibrary` | `Ring`, `Instance` and `DteLink` for TLC, one at work in a behaviour | the three |
| `MCSerial` | `Pacing` and `Stream` for TLC, likewise | both |
| `MCHost` | `HostNet`, `Files` and `Sockets` for TLC, likewise | the three |
| `MCDteLink`, `MCCalls`, `MCXModem`, `MCZModem` | instances of one module for TLC | |

The modules meet at the interfaces the code has.  `DteLink` uses two queues
where the code has two `Ring`s, which is what `ByteFifo` and the refinement
justify.  `DteLink` lets a read take any number of bytes and `Pacing` says which;
`Calls` sees of a socket what `Sockets` makes of it, and of the pins what
`Instance` reports.

Three `MC` modules extend modules that share no variable, so that one run of TLC
checks them all.  The variable `part` says which of them is at work; the others
stand still, so that the state space is the sum of theirs and not the product.
Fairness is stated for the part at work only.

### Ring

`buf`, `head` and `tail` are the members; `ppc`, `pbyte`, `cpc`, `cbyte`, `chead`
are the program counters and locals of the one producer and the one consumer.
`push` is `PushCheck` (the test of space), `PushWrite`, `PushPublish`; `pop` is
`PopCheck`, `PopRead`, `PopAdvance`; `reset` loads the head and stores the tail.
`size()` and `space()` load both indices; the thread that calls them owns one of
the two, so they are taken as one step: what the other index does between the
loads only makes the answer older, and the answer is used one step later.
The accesses are sequentially consistent atomics, so interleaving is the whole story.

### DteLink

A byte is its place in the firmware's output, so that order and loss can be
stated.  `fpc` says where the firmware is: parked between two polls, in
`enqueByte` (`enque`), in `serialOutDeque` (`deque`), in a flush, or in
`xi_dte_write` (`uart`, `rtswait`, `push`, `pushlate`).  The byte from TBUF stays
in TBUF until `xi_dte_write` returns, as the code has it.  The embedder
(`Read`, `Send`, `SetBaud`, `ClearBaud`, `RaiseRts`, `DropRts`) acts between any
two steps of the firmware with `Threads = 2`, between polls with `Threads = 1`.
A wait with a time limit may end at any moment.  `excused`, `overshoot`, `held`
and `mark` are ghosts for the properties: `overshoot` counts the bytes put into
the ring of a live link since RTS fell, `held` those of a dark one, whose path in
`xi_dte_write` does not look at RTS, and `mark` is the byte to be printed when
the card was last reset.  The two rings are queues here, which
`Ring` shows they are.

### Calls

`m` is the state of the firmware and its sockets; a handler is an operator from
`m` to `m`, because the code calls handlers from each other, in destructors too,
and the order matters.  Connections are numbers in the order of the list.
`Delete` is the destructor: unlink, repair the two pointers, look at the
carrier, which starts `SweepExpired`.  A step is a command (`Command`,
`DialCommand`, or none) or one turn of the loop of the mode
(`LoopInCommandMode`, `LoopInStreamMode`); the network, the clock and the
terminal act between the two.  A handler that uses a pointer to a deleted
connection sets `m.stray` and the model stops: the rest is undefined.

### XModem

`s` and `r` are the two programs, `toR` and `toS` the bytes on the line.  A block
is its first byte, number, complement, data and check; one data byte stands for
128 or 1024.  It may be a control byte, as any byte of a file may: behind a wrong
number the rest of the block stays on the line and is read as commands, and the
file of the runs has an EOT among its data.  `Damage` and `Lose` are the line.  A
damaged byte may become a command or an answer, but two damaged bytes do not fit
each other, so that a number with its complement and a check are not forged, and
it does not begin a block.  The ghost `misread` is set when a byte is read as a
command or an answer that was not sent as one.  `room` is what the receiver's
disk takes: `Stored` ignores the result of the write as `xUDataHandler` does, and
the block is acknowledged all the same.  A time
limit expires when nothing is on its way, and the gap inside a block is given up
before the other side acts (3 s against 7 s).

### ZModem

`s` is `send_file` with `send_from` and `get_zfin`, `r` is `zUpload` or
`recv_files` with `recv_init`, `recv_file_data` and `recv_file_frame`; `pc` is
the wait the program is in.  `recv_files` has no caller in the firmware; it is
the receiver with resumption, skipping and giving up that the sender expects at
the other end.  The line carries whole headers and subpackets; `Received` and
`ReceivedData` are `recv_header` and `recv_data`: what is not a header is skipped
while one is awaited, and a header read as data fails the check.  Escapes, the
three formats of headers and the two checks are behind `bad`: a damaged header
or subpacket never passes its check.  `FrameFails` and `Retreat` are the two
error paths, with their counters.  A large block is `MaxBlock` units in one
subpacket and a small one a unit; blocks that have shrunk grow back to `MaxBlock`,
although the code halves that limit after an error, too (`proto_zmodem.ino:2012`).  `Delay` lets a wait end although its answer is
still to come; otherwise waits end when neither side has anything to do.
`gaveUp`, `skipped`, `complete` and `success` record what the code logs, counts
or returns.

### Instance

`objs` is the memory of every instance ever made, `gInst` is `g_inst`, `pin` the
firmware's `g_pin`, `pc` where the one thread is: with the embedder, in
`setup()`, in `loop()`, in a callback inside it.  `setup()` and `loop()` write
pins in any order and may throw anywhere.  `told` is what an embedder knows that
asks for the levels when it registers and then listens.  `stray` records
accesses to freed memory.

### Pacing

A credit is counted in `Unit`s of a byte, so that a tick of time is worth a whole
number of units and a fraction of a byte is kept as the double keeps it.  A call
is a step: it refills both credits with the ticks gone by at the present rate, up
to `Cap`, and moves what the budget, the ring and the caller allow.  `debt` is a
ghost: bytes fill it, time at the line rate empties it.

### Sockets

`ref` says which socket record a client object shares, `fd` and `connected` are
the record, `ssl` the descriptor a TLS session works on, `pend` what it has
decrypted.  `open`, `rx`, `sent`, `room`, `peer` and `backlog` belong to the host
and the other end; a closed descriptor is given out again.  `job` is a write,
handshake or ping in progress, between whose steps only the host moves.
`orphan` marks descriptors a second connect has left behind.

### HostNet

`latch` is `g_wifiTransientDown`, `pc` where the firmware is: the two loops of
`connectWifi`, the configuration, the turns of `loop()`, a command.  `from` is who
called.  A step runs from one look at the host to the next, because between two
looks the network may change.  `query` is the request to the time server, `since`
a ghost of the time since a clock that waits for the time has last asked, which
does not wrap.  Time passes in a slice before `tick()` looks at it.

### Files

The file is a sequence of units (field, comma, field), each named by the settings
it belongs to: a version, and the time zone.  A save is `Save`, `RemoveOld`,
`RemoveConfig`, `Opens`, `Prints`, `Closes` and one of the three ends of
`verify`; both removes and the open may fail, and the code looks at none of the
three results.  `flushed` of the `printed` units have reached the
disk, whenever stdio likes.  `oldDisk` is the file of the first version, which is
read when there is no other (`zcommand.ino:574`).  `Killed` may happen between any
two steps.  `Loaded` is what a load makes of what is there: the defaults, the
settings of a whole text, or others from a short one; the time zone is printed in
decimal and read as hexadecimal (`Restored`).

### Stream

`call` is the call in progress with its arguments and locals, `step` the two
halves of a wait: look, and look at the clock.  Bytes come in between.  `got` is
what the call has taken, `quiet` a ghost of the time since the last byte that
does not wrap.  A number is its sign and its digits; the arithmetic is left out.

## 3. Runs

| Run | Asks | Bounds |
|---|---|---|
| `library` | ring: no slot race, refinement of `ByteFifo`; instance: outputs told, nothing dangles; output: order, loss, overshoot, reset | 4 slots, 2 byte values; 2 instances; 4 bytes, TBUF 2, ring 3, 2 rates, 2 threads |
| `dte_live` | polls wait for the terminal alone, TBUF drains | 3 bytes, TBUF 2, ring 2, 2 rates, 2 threads |
| `dte_block` | finding | as `dte_live`, 1 thread |
| `dte_reset` | finding | one rate, no RTS, 1 thread |
| `serial` | rate kept, bytes served; reads exact, reads end | 2 rates a side, 2 frames, 3 bytes each way; 3 bytes |
| `calls_safety` | pointers, carrier, rate | 2 calls, all commands, S0 = 1 |
| `calls_live` | ringing ends, DTR hangs up | 2 calls, S0 = 2, S63 = 2 |
| `calls_walk` | finding | 2 calls |
| `xmodem` | file prefix, truth of reports, repair, end | 5 blocks, 3 faults, disk of 2 or 9 blocks |
| `xmodem_success` | finding | 5 blocks, 1 damaged byte |
| `zmodem` | file prefix, truth of reports, repair, end | 5 units, 1 fault, 3 errors |
| `host` | fresh line, loop, clock; file; one owner, end after bytes, writes end | clock of 7; 3 fields, 3 versions; 1 plain and 1 TLS client, 2 descriptors |

Deadlock is checked in `dte_live` and `serial`.  Elsewhere the system may stop: a
transfer and the one write or handshake in progress come to an end, the last
instance is freed, a handler has used a stray pointer.

Why the bounds are enough:

- *library*: four slots give every relation of head and tail (empty, one, full,
  wrapped); the code depends on nothing else about the size.  Two instances, so
  that one is made over the pins of another and old handles
  to the first exist beside the second.  Of the output path the sizes keep the
  order of the real ones
  (`SerBuf < TxFifo`, `PreconfigHold < RingCap`); the slow rate has a throttle
  that closes and the fast one a throttle that does not, and every queue can be
  empty, partly filled and full.  RTS falls once.  The theorems hold for any
  number of each.
- *dte_live*: three bytes fill TBUF and leave one to wait for room, or fill the ring
  and leave one to be given up.  The hold is as large as the ring, which
  makes no difference to the waits.  The embedder may call during a poll, but no
  such call is fair: what it does from one thread is among the behaviours, and
  no poll ends because another thread comes to its help.
- *calls*: two connections are what it takes for one to be deleted while
  another is looked at, for a caller beside a streamed call, and for a walk with
  a successor.  S0 = 1 is answered at once; after ATA S0 is 0 and callers ring
  to the end; callers that come in stream mode ring to be answered.
  `calls_live` has S0 = 2 in addition.
- *xmodem*: block 4 is there because 4 is EOT, and the data of block 2 are an
  EOT; limits are
  just above or just below the number of faults, so that both repair and giving
  up happen.  A damaged byte becomes EOT, ACK, NACK or nothing that is known.  The
  disk has room for two blocks or for all.  The modulus of the block numbers is the
  real one, 256.
- *zmodem*: large blocks of two units make an acknowledged block, a streamed one
  and a short last one, and an error halves them, so that the last one is empty.  The receiver has room or not
  enough, accepts one large block or any number, and has no such file, the
  beginning of this one, another one or a longer one.  One fault can cost several
  errors, because the blocks behind it draw answers of their own; `MaxErrors = 3`
  is above that once the data flow, and below what leftovers of the opening
  cost, so that both repair and giving up happen.  The safety properties also
  hold with two faults and `MaxErrors = 4` (5.2 million states, not a run here).
- *serial*: rates that agree within three per cent and rates that do not, a tick
  worth less than a byte and one worth more than the cap, frames of 10 and of 12
  bits.  Time and bytes are bounded by the credit's cap anyway.  For the reads the bytes
  are one of each meaning (digit, sign, point, NUL, other), the
  target of `find` has two, so that a match can fail half-way, and `millis()`
  wraps from every start.
- *host*: the clock has more values than twice its long period, so
  that it wraps while it waits, and `since` is counted up to one beyond the bound
  of `AsksAgain`, a count there saying no more.  A save is written at most twice,
  over a version before it or over the file of the first version; three versions
  are one in the old file, one in the new one and one in memory; the time zones
  are one that is read back wrong, the default and that of a clock
  which is off.  Two descriptors are what it takes for one to be given out again
  while another object still has its own; a TLS client keeps a second name for its
  descriptor; writes are larger than the host's buffer.  The theorems hold for
  any number of these.

Each property of a passing run has a *mutant*: a definition with a plausible
mistake under which TLC finds the property violated (`PROJECT.json`, `mutants`;
in the modules they precede the definition they change).

### Fairness

- `DteLink!Served`: the operation of a poll goes on; each turn of `loop()` looks at
  TBUF and the embedder reads between its polls (strong fairness, because both are
  possible only between two polls, again and again).  Nothing is assumed of what
  another thread does during a poll, which `ximodem.h:31` forbids.  Nothing is assumed of RTS,
  XON and the rates.  `OutputDrains` has as its hypothesis that output is let on for
  good, `PollEnds` says itself that the terminal is awaited.  `EnqueHalted`, a
  delay that looks again, has no fairness.
- `Calls!Polled`: polls come again and again and return, the terminal takes its
  output and times pass.  Nothing is assumed of callers and remote ends.
- `XModem!Spec`, `ZModem!Spec`: both programs run.  Nothing is assumed of the line but the bound
  on its faults.
- `MCSerial!SerialSpec`: the embedder reads and writes, the firmware prints and
  takes, and time passes (`Pacing!Polled`); the loop of a read that waits goes on,
  and of its looks at the clock not all fall into the same millisecond.
- `MCHost!Spec`: the firmware's code goes on and a line of commands ends (strong
  fairness, because other commands come between); the loops of a write and a
  handshake go on, and a peer that keeps the connection takes what it is sent.
  Nothing is assumed of the terminal, the network or the time server, and nothing
  of the files.

### Findings

`calls_walk`.  A comment in `sendNextPacket` (`zcommand.ino:4011`) says that a
deletion in its walk "messes up the order, so just leave and start over".
`checkOpenConnections` at line 4005 is such a deletion when a marked caller's time
is over; the walk goes on, and line 4007 dereferences `nextConn`, which may be
null by then.

`dte_reset`.  A comment in `ximodem_set_baud` (`ximodem.cpp:478`) says that
"mid-stream bytes from a torn-down session must not resurface" after a reset of
the card.  The reset empties `toDTE`, one of the three places where output waits;
what TBUF holds is sent when the card has a rate again.  `ResetKeepsTbuf`, which
passes, says that no more than that comes back.

`dte_block`.  The header says that `ximodem_poll` is "Non-blocking"
(`ximodem.h:82`) and asks for all calls from one thread (`ximodem.h:31`).
`enqueByte` waits in a loop while TBUF is full and output is halted
(`serout.ino:274`): RTS can be raised from another thread by `set_signal`, but an
XON is read by another poll, and after an XOFF the poll never returns.
`PollEnds`, which passes, says that the terminal is the only thing waited for.

`xmodem_success`.  "Upload completed successfully." (`zbrowser.ino:836`) is said of
a file that was cut short.  After a damaged block number the rest of the block
stays on the line and is read as commands (`proto_xmodem.ino:156`); an 0x04 among
the data is an EOT, is acknowledged, and ends the file.  `AckMeansStored` and
`ReceiverTruth`, which pass, hold while nothing is lost and nothing misread, and
except the full disk.

More places where the code and a text of the repository disagree, or where the
firmware says what is not so.  No property of a passing run promises the text:

- `ximodem.cpp:134-136` says that the "modem->DTE byte path honours the DTE's RTS
  line byte-for-byte".  `xi_dte_write` compares the rates first, and while they
  differ it pushes up to `XI_PRECONFIG_HOLD` bytes with RTS low and drops the rest
  (`ximodem.cpp:296-300`).  `RtsOvershoot` counts both paths: one byte on a live
  link, the hold on a dark one.
- `ximodem.cpp:263-268` says that when "reported space hits 0 ... the firmware stops
  draining its own 4 KB buffer".  At rates above 47 kbit/s, the default of 115200
  among them, the deque size exceeds the UART's buffer and the throttle of
  `serialOutDeque` never closes (`serout.ino:37`, `zimodem.ino:298`).
- `rt_clock.h:164` says that a clock without the time asks "every minute".  A request
  that was lost is repeated when a slice meets the millisecond, or when that is
  more than five hours behind (`rt_clock.ino:148`).  `AsksAgain` bounds the wait
  by two of the long periods and a slice, and the bound is reached.
- `proto_xmodem.ino:423` says of an ACK "data is ok - go to next chunk".  `xUDataHandler`
  returns true whatever `write` has returned (`proto_xmodem.h:126`): on a full disk
  every block is acknowledged and the upload completes "successfully".
- `zconfigmode.ino:225` prints "Settings saved." when the file has the right number of
  commas.  Where neither remove nor open works that is the file of an earlier
  save (`zcommand.ino:370-426`); `SavedIsStored` excepts a save whose open failed.
  One that lacks only the value of the last field passes as well.
- The same message covers the time zone, which is printed with `%d`
  (`zcommand.ino:403`) and read with the fields that are hexadecimal
  (`zcommand.h:84-87`): zone 32 comes back as 2, one digit as no change, and 999, a
  clock that is off, as zone 0 with the clock on.  `Boots` does as the code does,
  and no property says that a zone is back after a start.

Behaviours met while modelling that no run states:

- DCD stays off when a caller is answered by ATC and streamed by ATD, until the
  next look at the carrier.
- RI stays on when a caller hangs up in the active half of a ring.
- In command mode nothing but a change of another call looks at the deadline of
  a marked call.
- With two callers the walk answers one and `doAnswerCommand` the last.
- YModem reads block 256 of a file as the header of the next one; a lost first
  byte makes block number 4 an EOT.
- `receive()` ends without a return statement after the last prompt.
- S0 is kept in a signed char: above 127 rings it is negative and answers nothing.
- The products of `xi_baud_match` wrap for rates above 42 Mbit/s.
- A ZModem receiver that answers a ZCRC exchange with ZSKIP fails the sender,
  which knows only ZRPOS there, and an empty file that is already there is always
  skipped: length 0 asks for the check of the whole file.
- `recv_files` sends ZRINIT after it has given up on a file, and the sender takes
  that for success.  `zUpload` answers ZEOF with ZFIN, not ZRINIT, so
  `send_file` never succeeds with it.
- Late ZRQINITs, the ZRINITs they draw and the ZFILEs these draw use up the
  attempts of the first frame.  The ZRINIT that answers the last ZRQINIT is
  counted as a failure.
- A ZModem subpacket that the line drops as a whole, inside a frame, leaves a gap
  that the receiver fills with the next one; the properties except it (`gap`).
- `zDownload` reads the cancellation flag after it has deleted the transfer:
  `Report` ends in success, failure or a crash.
- NO CARRIER is itself output on its way, which counts the closed call as open:
  DCD stays on until the next look (`wificlientnode.ino:491`).
- In XModem, at block 256 the receiver prompts a second time, and from then on the
  sender takes each answer for the next block's (`proto_xmodem.ino:253`).
  `AckMeansStored` is checked for shorter files.
- The idle time before `ximodem_set_baud` is credited at the new rate, up to the
  cap.
- A callback that destroys the instance, followed by a `loop()` that throws, stores
  the fault latch into freed memory.
- A second `connect` on the same `WiFiClient` leaks the old descriptor
  (`WiFi.cpp:91`).
- `connected()` of a TLS client peeks at the raw socket: when the peer has closed,
  decrypted bytes are lost, because stream mode asks it before it reads
  (`zstream.ino:315`).  After a peek `available()` counts one byte twice.
- `WiFiClient::write` waits for ever for a peer that keeps the connection and takes
  nothing.  `WiFiUDP` keeps received bytes across `stop` and `begin`.
- With no saved time zone and no SSI, the clock update at boot takes the latch that
  `loadConfig` has set (`zcommand.ino:554`); the clock then asks nobody until AT&T.
- In the last five hours before `millis()` wraps every answer draws
  a new request at once (`rt_clock.h:165` says every five hours).
- `connectWifi` may return true with no retry set although it has seen no network,
  if that comes up between its last look and its return.
- A save removes the configuration before it writes it: one that is cut loses the
  settings of before, and boot finds the defaults or a beginning of the new file.
- `Stream::findUntil` misses a match that a failed one hides ("aab" in "aaab"); the
  target of the run has no such repetition.  A NUL ends it like silence, and
  `parseInt` reads "1-2" as -12.
- ATT reads its bytes inside one poll, up to a minute for each; `readString` never
  returns while the terminal keeps sending, which the bound on its bytes hides.

## 4. Theorems

All for every value of the constants under the named assumptions of the module.

**RingProofs**, from `NAssumption` (at least two slots) and `NoValueAssumption`:

- `Invariance`: `RingSpec => []RingIInv`.  Mutual exclusion at a slot is not inductive by
  itself.  It needs that the test that let a thread in stays true until its
  last step (`ProducerOK`, `ConsumerOK`: the other side can only add space or
  bytes), that the byte a thread carries is the one in its slot, and that every
  slot between the indices holds a byte (`FilledOK`).
- `TypeCorrect`, `RaceFreedom`: consequences.
- `Refinement`: `RingSpec => Fifo!Spec`.  `PushPublish` is Put, `PopAdvance` is Get,
  `ResetStore` is Discard, the rest stutters.  The arithmetic of the wrap is
  proved in lemmas about `Dist`.

**DteLinkProofs**, from the assumptions on sizes and rates:

- `LinkInvariance`: `Spec => []IInv`.  Order of the bytes read is a property of
  the whole pipe.  `OrderOK` orders what was read, the ring, TBUF and the bytes
  to come; `ContiguousOK` says there are no gaps until a byte is dropped on
  purpose; both need `CurOK` (the byte in `xi_dte_write` is the head of TBUF, or
  found TBUF empty) and `PrintOK` (a byte is there to be printed); `OvershootOK`
  adds to `RtsOvershoot` that the byte under way has not been counted yet.
- `LinkTypeCorrect`, `OrderKept`, `NothingLost`: consequences,
  through the lemmas about `Pipe`.
- `BoundAfterRts`: `Spec => []RtsOvershoot`, on a live link and on a dark one.  For
  the second, what was put into the ring since RTS or a rate changed is still in
  it, because a dark link is not read, and the hold is not exceeded (`HeldOK`).
- `ResetBound`: `Spec => []ResetKeepsTbuf`.  The bytes of the old session are a
  beginning of ring and TBUF together, and a reset leaves those of TBUF.

**InstanceProofs**, from `MaxInstAssumption`:

- `InstanceInvariance`: `InstanceSpec => []IInv`.  `PhaseOK` says which phases of the
  thread go with which instance, `FlagsOK` which flags a live one has, `LastOutOK`
  that `lastOut` is the level of every pin that `setup()` has written, and `ToldOK`
  carries that to the embedder.
- `InstanceTypeCorrect`, `EveryChangeTold`, `NoneDangling`: consequences.
  `NoneDangling` says that the current instance is allocated and no other is.  A
  callback may destroy the instance whose poll it runs in, which is then not the
  current one; that the rest of that poll leaves it alone is not claimed.
  `FaultedIsInert`: the action property that a fault is final.

**SerialProofs** has two parts.

- From the assumptions on rates and sizes of `Pacing`:
  `PacingInvariance`: `Spec => []PacingIInv`.  `BucketOK` says that, unless
  the bucket is empty, what it holds, the credit in hand and the worth of the time
  not yet credited are together within the cap: what a read or write uses of the
  credit goes into the bucket, and time empties it as fast as it fills the
  credit.  `PacingTypeCorrect` and `ThroughputMetered` follow.
- From `StreamAssumption`: `StreamInvariance`.  `TimeOK` says how long a call has
  really waited, of which the clock that wraps shows two ends; `FindOK` that the
  bytes taken end with the part of the target the code has counted and with no
  other; `ParseOK` what became of each byte.  `WaitsWhole` and `CallsExact`
  follow.  `CallsExact` assumes `FirstApart`, that the first byte of a target is
  nowhere else in it: the code does not look back after a failed match, so for
  other targets the property is false.  `DigitsOf` is a recursive function, and
  `DigitsAppend` says what one more byte does to it.

**CallsProofs**, from `MaxIdAssumption`, `RingsAssumption` and
`SettingsAssumption`; for any number of calls, and any settings and commands:

- `Inductive`: `Spec => []IInv`.  None of the four properties is inductive by
  itself.  `Good` is what every handler leaves behind: a call that is not
  answered has rings left and the ids leave room for a caller that waits
  (`ListOK`), both pointers of command mode are on the list (`PointersOK`), the
  rate is the one its state says, and that state follows the carrier even while
  a change is pending (`RateOK`), and no carrier without a connection
  (`CarrierOK`).  Inside a handler less holds: `Sound` before the carrier has
  been looked at, `ListBut` while the rings of a caller have run out.
  `Streamed` allows for the streamed call that is marked and waits for its end.
- Handlers call each other, so there is a lemma for each handler, not for each
  step, and the step theorems cite them.  A walk over the list that deletes as it
  goes is a recursive function of the number of its turns; `WalkExists` and
  `WalkStays` are the induction over that number, which follows from the least
  number of a set.
- `Typed`, `CommandPointers`, `StreamedCall`, `CarrierEnds`, `RateFits`:
  consequences.

**XModemProofs**, from `ProtocolsAssumption`, `LimitsAssumption`,
`RoomsAssumption`, `FileAssumption` and `FaultsAssumption`; for any file of fewer
than `Mod` blocks, control bytes among its data, any limits, any disk and any
number of damaged bytes:

- `TransferInvariance`: `Spec => []IInv`, where `IInv` is `Sound` under two
  hypotheses: the file is `Short`, and the line is `Plain`, which is `~lost` and
  `~misread`.  What the properties say of the two
  programs depends on what is on the line between them.  The two work in turns:
  while the receiver has a block to read it is the one written last, and nothing
  is on its way to the sender (`FramesOK`); an ACK on its way is the first byte
  there, and the sender's block is then taken (`AnswersOK`, `StoredOK`,
  `PlaceOK`).  Damage forges neither a number with its complement nor a check
  (`Garbled`, `NumberTrue`, `DataTrue`).  Data that are control bytes do no harm
  behind a right number, where they are read as data, and behind a wrong one
  `misread` is set when they are read as a command.
- What the receiver has taken (`r.got`) is on its disk (`r.file`) until that is
  full: `DiskOK`, a second invariant.
- `AckTrue`, `SuccessTrue`, `BeginningStored`: consequences.  The first two except
  a full disk, as their properties do.

The two hypotheses are the code's limits, not the proof's.  At block `Mod` the
receiver prompts and the answer then stands for the wrong block.  The check does
not cover the block number, so that lost bytes in the right places give the number
of one block to the data of the next, or read a number as EOT; and behind a
damaged number a data byte is read as EOT (`xmodem_success`).  `AckMeansStored`
and `ReceiverTruth` are therefore stated while no byte is lost and none misread,
and `BeginningStored` is proved under the same condition.  The run checks
`FilePrefix` with losses and misread bytes too, but at most three faults.

**ZModemProofs**, from `ReceiversAssumption`, `FileAssumption` and
`LimitsAssumption`; for any file of different units, any old file, disk, buffer
and limits, and any number of faults:

- `ZModemInvariance`: `Spec => []IInv`.  A subpacket carries no position, so that
  its being stored in its place is a property of the line: what follows a ZDATA or
  ZCRCG there, apart from silence and CANs, is the subpacket for the place at
  which that ends, and if nothing follows the sender is still at that place
  (`InOrder`).  The place of a receiver inside a frame counts as a header it has
  already read (`Awaited`).  Lemmas say that reading, writing and each fault of
  the line keep it so; only the loss of a whole subpacket does not.
- That ZRINIT means success depends on the order of the answers: until the
  receiver has finished, none follows a ZRPOS on the line, none is there while the
  sender sends data, and there is no ZRPOS from a receiver that has not opened the
  file (`SuccessOK`).  `AcksOK` says that a ZACK on the line names no place beyond
  the end of the receiver's file unless the disk is full, `HeadersOK` that a ZEOF
  names the end of the file and a ZCRC holds a beginning of it, `BatchOK` and
  `ReportOK` what the flags of the receiver stand for.
- `ZFilePrefix`, `SenderTrue`, `ReceiverTrue`: consequences.  `ZAckTrue`: the
  action property, from `AcksOK`.

All of this holds while no whole subpacket has been dropped inside a frame
(`gap`), which is a limit of the protocol (section 3).

**HostProofs** has three parts.

- From `HostNetAssumption`: `NetInvariance` adds the types to `FreshLine`, which
  is inductive with them: every way into a command goes through a look at the
  network, and every disconnection leaves the command.  `LineIsFresh` follows.
  `ClockAsks`: `NetSpec => []AsksAgain`.  A clock that waits for the time is
  before its next look by one long period at most (`Before`) or behind it by one
  (`Behind`).  While time passes, what it has waited and what is left until the
  look together do not grow; a wrap of `millis()` takes it out of both ranges,
  which is when it asks (`ClockOK`).
- From `FilesAssumption`: `FilesInvariance` says that while a file is open the
  disk holds the flushed units of the settings in memory, whether or not the old
  file could be removed before (`WrittenOK`); and from its close to the next save
  or AT&F what the save has called saved stays there while the settings change and
  the program comes and goes (`ClosedOK`).  `OneVersion` and `OkIsStored` follow;
  the second excepts a save whose open failed.
- From `SocketsAssumption`: `SocketsInvariance`.  One owner is not inductive by
  itself: no two TLS clients share a record (`SecureApart`), and the call the
  firmware is in has a descriptor to work on (`JobOK`).  `FlagMeansEnd` (a cleared
  flag means an end with nothing unread, or a failed send) carries
  `EndAfterBytes`.  `SocketsTypeCorrect`, `OneOwner` and `NoEarlyEnd` follow.

Only model-checked: `FilePrefix` of `XModem` with lost or misread bytes, and every liveness
property, since liveness under fairness and ENABLED are out of the
prover's reach.  An induction theorem with an operator as its parameter is out
of reach as well; induction over numbers is done with the least number of a set
(`CallsProofs`, `SerialProofs`).  The type invariants are proved where a module has
proofs, except `XModem` and `ZModem`, whose proofs use wider types (`Typed`):
their `TypeOK` also bounds the counters, holds at the bounds of their runs and
documents the state.

## 5. What is left

In order of importance.

1. `Kermit` and `Punter` beside `XModem` and `ZModem`, over a line of the same
   kind.
2. Packet flow (ATF2, ATF3): headers, the resend window; abstract specification:
   every packet reaches the terminal once and in order.
3. The guard times of +++ against polls of unknown spacing.
4. `HostCM`, the listeners file and the phonebook, the telnet filter.

Not modelled, for good: third-party code (libssh2, OpenSSL, lwIP), dialogues and
formatting (menus, shell, FTP, HTTP, IRC, print mode, session log), tables
(PETSCII), calendar arithmetic, and the code for Windows where it differs from
the rest in form only.
