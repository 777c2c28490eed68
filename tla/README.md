# fhw_decoder in TLA+

fhw_decoder is the software of an embedded video-wall decoder: cameras are
read over RTSP by one process, their RTP packets go through a unix socket to a
second process, and that process reassembles frames and feeds a hardware
decoder. Around the two stand a configuration web server, a gateway to serial
and Modbus devices, and some tools.

The program has hardly any tests, and what it gets wrong shows up as a frozen
or a garbled window after days. This directory models the parts where the
order of events decides: two threads that share flags without a lock, a byte
stream that is cut anywhere, queues that fill up, events that are cleared
behind a handler's back.

## 1. The system

### decoder (`src/decoder`)

| part | state | operations | interacts with |
|---|---|---|---|
| byte buffer (`dec_buf.c`, the same code as `rtsp_context/conn/buf.c`) | heap, head, tail, size | new, init, extend, append, consume | the package reader, the frame buffers, the link |
| package reader (`main.c` `server_read_handle`) | the connection's read buffer | receive, cut into packages of 1616 bytes, call `pkgProcess` | event loop, package processing |
| package processing (`rtpPkgProcess.c`) | the flags of each of 16 channels, the static window count | stream data; command 88 (new source, new layout); command 89 (camera lost) | frame reassembly, osal timers, SDK |
| frame reassembly (`stream.c`) | a frame buffer per channel, PKG_STARTED, tile counters | unpack H.264 and H.265 fragments, `do_decode` | SDK, flags of the channel |
| osal thread (`osal/`, `alltasks.c`) | two tasks with 16 event bits each, a timer list, one mutex | every 100 ms: count timers down, call the handlers of the tasks with events | the flags and frame buffers of the channels |

The main thread runs an epoll loop and everything that packages cause. The
osal thread runs `dec_reset_handler` (clears the window of a channel that has
got no picture for 300 ms after a change) and `check_left_freams` (once per
second: a channel with more than 50 frames waiting in the hardware refuses
frames for 2200 ms).

### rtsp (`src/rtsp`) and connet (`src/rtsp_context/conn`)

One thread: an epoll loop (connet) with a pool of connections, a timer tree, an
RTSP session per camera, a configuration server on port 10000, and the link to
the decoder. (The programs link `connet.a`, whose sources are not in the
repository; `rtsp_context/conn` is the copy that is.) `send_pkg` copies a
package into one large queue (`unixBuf`) and asks for EPOLLOUT;
`unix_write_handle` sends the queue in chunks.

### serialCtrl (`src/serialCtrl`)

The gateway of the control panel, three threads on a serial port, a PLC, the
cameras and rtsp.

| part | state | operations | interacts with |
|---|---|---|---|
| uart thread (`main.c` `_mainLoop`) | `serialCustom`, the last view keyed in | push the view of a key on `voQueue`, keep it | vo thread |
| vo thread (`_voLoop`) | the event loop, `voQueue`, one osal task | process events and timers, run the osal, send one view to rtsp (`transVo`) | rtsp, port 10000 |
| alarms (`hik_event.c`, `cache.c`) | up to 8 connections of cameras, each with a node of a cache | show the camera for 8000 ms, tell the PLC by `eventQueue` | vo thread, osal timer, Modbus server |
| PLC (`plcBus.c`) | protocol 1: a Modbus server with registers; protocol 2: a client that polls | push the views of scenes; report alarms in a register; the chain of polls | event loop, `voQueue` |
| http thread (`_httpLoop`) | `ptzQueue` | PTZ commands to cameras by HTTP | cameras |

### The rest

`memobus` (Modbus poll client), `httpd` (configuration pages and
firmware upload on the event loop), `discovery` and `listen_udp` (UDP), `spawn`
(supervisor), `smartTemp`, `setVideo`, `uart`, `sqlite3` (tools and test
programs), `test_x86` and `rtsp_context` (older copies and demos), `fy_test`,
`tinyhttpd`, `tinyxml2` (third party). `PROJECT.json` lists each with what is
modelled of it or why it is not.

### What is hard, and what makes each part correct

* **Two threads, no lock.** Only the timer list is under `osalEnv->lock`. A
  handler gets a copy of `eventFlag` and its result is written back when it
  returns; the five flags of a channel are bit-fields of one word. Correct:
  no clear of the screen is lost, what was refused is accepted again, and the
  periodic check never dies. The first and the last hold; the second fails in
  one case, see section 3.
* **A stream without frames.** `recv()` cuts packages anywhere. Correct: no
  byte is lost, repeated or shifted, and every write is inside the heap.
* **Queues at their limit.** A full `unixBuf` or frame buffer drops everything
  it holds. Correct: what arrives afterwards is whole again.
* **Edges.** epoll is edge-triggered and the event loop clears
  `write->active` after every write handler. Correct: the link does not stop.
* **Order of commands and data.** Layouts change and cameras are lost while
  frames arrive. Correct: no channel without a window is fed.
* **Time-outs, retries, reuse of connections** in the RTSP client. A
  configuration frees sessions while events of their sockets wait in the same
  batch. Correct: every camera is tried again, no two clients share a
  connection, and no event reaches another socket's session.
* **Linked lists mended in place.** The osal's timers move between two lists,
  with four links to mend in every branch. Correct: no timer is lost, doubled
  or kept back.
* **Several who choose the picture** in serialCtrl, one of them for a limited
  time only, with the operator's view shared between two threads. Correct: the
  view that is due comes back.
* **A chain that re-arms itself.** A poll of the PLC is sent because the last
  one was answered. Correct: it ends nowhere but where an answer is missing.

## 2. The modules

| module | models | abstract counterpart |
|---|---|---|
| `ByteBuf` | the operations of `dec_buf.c` / `conn/buf.c` on a record `[head, tail, size, heap]` | |
| `PkgReader` | `server_read_handle` of the decoder, with `get_conn`, `close_conn` for the reuse of the read buffer | implements `PkgStream` |
| `PkgStream` | what the reader promises: whole packages of a byte stream | |
| `UnixLink` | `send_pkg`, `unix_write_handle`, the write half of `process_events`, the kernel's socket, the reader | |
| `Decoder` | the two threads of the decoder: `pkgProcess`, `process_rtp`, `do_decode`, `osalRunSystem` and both handlers | |
| `FrameAsm` | one channel of `stream.c`: the unpackers, the tile counters, `do_decode`, every reset of the frame buffer | |
| `RtspSessions` | the clients of `rtsp/rtsp.c` and `media.c` on the pool of `connection.c`, with `process_events` and the timers | |
| `TimerList` | the timers of the osal (`timers.c`) as linked cells, with the calls of `osal.c` | implements `TimerSet` |
| `TimerSet` | what the timers promise: pending keys with the time left | |
| `SerialViews` | serialCtrl: keys, scenes, alarms and the return to the operator's view; the alarm connections and bits | |
| `MCSerialViews` | the views of `SerialViews` for TLC | |
| `PlcPoll` | serialCtrl as a client of the PLC: one connection on the event loop and its chain of polls | |
| `PkgReader_proofs`, `UnixLink_proofs`, `Decoder_proofs`, `FrameAsm_proofs`, `RtspSessions_proofs`, `SerialViews_proofs`, `PlcPoll_proofs`, `TimerList_proofs` | the proofs about these modules | |

### ByteBuf

Bytes are numbers, so a buffer says where its contents come from; `Blank` is a
byte that `memset` left. The operations are those of the C code, with one
detail that is easily lost: `tailTOend = capacity - tail - 1` is unsigned, so
`TailShort` is false when `tail` has reached `capacity`.

### PkgReader

`buf` is `c->readBuf`, `pc` the place in the do/while of
`server_read_handle`. `Recv(r)` is `buf_extend` and a `recv()` of r bytes for
any r up to `ReadLen`; `RecvNothing` and `PeerClosed` are the results -1 and 0
(the buffer was extended before); `ProcessPkg` one turn of the inner loop;
`Accept` the reuse of the connection for the next peer, which must reset the
buffer. `got` and `pkgs` count the bytes received and the packages processed.

### UnixLink

`queue` is `unixBuf`; `active` and `ready` the fields of `unixFd->write`;
`edge` is an EPOLLOUT that epoll has to report: it appears when EPOLLOUT is
asked for (`add_event` re-arms an edge-triggered descriptor) on a writable
socket and when a read of the decoder makes it writable. `wire` is what the
kernel holds, `part` what the decoder has of a package. Package bytes are
numbered modulo `Ids`, so a mixture of two packages is seen. `torn` is history:
a full queue was dropped while part of a package was sent. `Overrun` is
`send_pkg` when `buf_extend` leaves no room for the package (`~Fits`): the copy
runs over the end of the heap, and the model of the rtsp process stops
(`pc = "overrun"`), while the decoder reads on.

### Decoder

`word[i]` is the word of bit-fields of channel i; setting a flag is `MainLoad`
(or `RefuseLoad`, `ReleaseLoad`) followed by the action that stores the whole
word, as a read-modify-write of a bit-field is compiled. `events` is
`eventFlag` of the two tasks, `pending` the timers in the list, `lock` the
mutex. `m` and `o` hold the program counter and the locals of the main and the
osal thread: `m.op` says which branch of `pkgProcess` runs, `m.reg` and `o.reg`
the loaded word, `m.ereg` and `o.cap` the copy of an `eventFlag`.
`osalClearTaskEvent` is two actions, since its read-modify-write of
`eventFlag` under the lock competes with the write-back without it
(`ResetReturns`, `LeftReturns`). A round of the osal thread expires any set of
pending timers (`TicksUpdate`): durations are left out, every order is in.
`Drain` and the growth of `left` in `SendFrame` are the hardware.
`asked` and `needI` are history: what was promised and not yet done. So is
`restored`: the refused bit of a channel stands only because a store of the main
thread, with the word it had loaded before a release, brought it back. A store
of 0 or a new refusal ends that.

Left out of `Decoder`: H.265 and the bytes of the frame buffers (`hdr` only
says whether the start of a fragmented frame is there; `FrameAsm` has both),
window geometry, SDK error returns except that of `StartRecvStream`.

### FrameAsm

`buf` is the frame buffer as a sequence of fragments, each with the frame, the
NAL unit and the part of it that it carries; `started`, `enPps`, `tiles`,
`cntI`, `cntP` are the fields of the channel. `Receive` is one call of an
unpacker (`Unpack`, and `ParseAndCount` for the PPS and the slice counters) and
`type` its result; `Decode` is the `do_decode` behind it. `Refused` is
`check_left_freams` on this channel, possible also between the two; `Restart`
stands for every branch of `pkgProcess` that resets the channel. `Lose` is a
package that does not come, or that is too short; `Discard` one that the H.264
unpacker takes for H.265 and drops (`stream.c:166`: heads 0x41 and 0x61 among
them), `Skip` one that the H.265 unpacker drops. `cam` is the camera: an I frame behind its
parameter sets, then up to `MaxP` P frames, each of one slice per tile column,
in fragments or whole. The decoder is told one codec for all channels at boot
(`dec_type`), so `codec` is constant.

`health` is history: `"lost"` from a loss on, `"half"` within the next I frame,
`"clean"` behind it. While it is not clean, the contents of fragments are
replaced by one value (`Junk`): nothing in the code looks at them, and the
properties speak of clean stretches only. That the channel gets out of every
other state is `Recovers`.

Left out: `refused` and `waitIfream` (a complete frame leaves the buffer
whether it is sent or not), the bits of the PPS but for the tile columns, NAL
types the cameras do not fragment, `RTP_ERR`, which no unpacker returns.

### RtspSessions

A client of `rc[16]` has one connection for life, so a session goes by the
number of its connection: `conn[c]` is the connection with its events
(`read`, `write` are the `active` flags, `rtimer`, `wtimer` the `timer_set` of
the two) and its socket, `sess[c]` what `rtsp_read_handle` remembers
(`do_next`, `success`, whether there are credentials). `cache` is
`connQueue->cache`. Handlers are pointers in the code; here they follow from
the flags: whenever the read event is active it has `rtsp_read_handle`, and an
active write event or a write timer has `rtsp_connect_handler`.

`Wait` is `epoll_wait` with the batch it returns, `Handle` one turn of the
loop of `process_events` with its test for stale events, and the handlers run
within it as in the code. The timers are handled when the batch is over
(`ReadTimeout`, `Reconnect`); one of 0 ms in the same round (`Due`). `Config`
is one package on port 10000, which another event of the same batch brings: it
comes at any place of the batch, frees clients and connects the new one, all
in one step, as `server_read_handle` does. `Configure` therefore has the order
in which `close_conn` gives connections back, since the next `get_conn` takes
the last one.

The upper part of the module is the network as an edge-triggered epoll shows
it: what the kernel reports depends on the events asked for (`add_event`
replaces EPOLLOUT by EPOLLIN when the read event is added), `recv()` gives
what lies there before an error or the end, `getpeername()` fails while a
connect is open. `own` in an event is history: the event belongs to the
socket the connection has now; `twice` is history as well: the connection was
closed again by the same batch after that socket was (`Severed`). `missed` is
history too, see below. `crashed`
ends a run where the code goes on with a client it has freed (a `connect()`
that fails at once); nothing is claimed behind it. `calm` says that from now
on cameras accept, answer and stay, and nobody configures; it matters for
liveness only.

Left out: requests the socket takes in part, answers in several pieces,
TEARDOWN (its timer is commented out), the digests, the packages to the
decoder, and the other users of the pool.

### TimerSet and TimerList

`tl` is the `timerList_st` with its cells: `next`, `prev`, `key` (task and event
flag; `NoKey` once the flag is 0) and `left`. The code stores the time a timer
is due and compares it with `gettimeofday()`; only the difference matters, so a
cell has what is left, `Tick` takes one from all of them and `SetBack` is a
clock that is set back. `Linked`, `Unlinked` and `Released` are the link
surgery of `addTimer`, `stopTimerEx` and `timerUpdate`, `Sweep` one turn of the
loop of the last, `Swept` the loop. Every call holds `osalEnv->lock` and is one step.
`Start` leaves out the return of `osal.c:54`, with the lock held, for a task that
does not exist: every caller names one that does. `Take` is one step here,
although `osalRunSystem` copies `eventFlag` without the lock and writes it back
when the handler returns; what that does to events is in `Decoder`, which has
the load and the store as steps of their own.

`TimerSet` has no list: a function from pending keys to the time left.
`TimerList` implements it by

    Abstract == INSTANCE TimerSet WITH
                  left <- [k \in Used |-> tl.left[CellOf(k)]], ...

and the property `TimerSpec` is `Abstract!Spec` with its fairness. `Decoder`
uses the same abstraction without the time: its `pending` is the domain of
`left`, and any key of it may expire in a round.

### SerialViews

`queue` is `voQueue`, `events` is `eventQueue`, `serial` is `serialCustom` and
`auto` the osal timer OSAL_VO. A key is pushed first and then stored field by
field (`Press`, `Store`); `osal_auto_vo` copies field by field (`AutoDue`,
`Copy`), and every order of the two is possible. While the vo thread copies it
does nothing else (`VoFree`). `Show` is one view a round. `Accept`, `Alarm` and
`Timeout` are a camera's connection from its node to the end of the event; a
connection goes by its node (`c->data`), and
`ReadCamEvents` the timer of the Modbus server that turns events into bits of
`holdReg[0]`. `due` is history, the view that should be seen in the end: the
last key, or a scene when no alarm is shown, and after an alarm the last key.
`late` marks a copy that a key overlapped. `Stir` are the steps of operator,
PLC and cameras; `ViewReturns` speaks of behaviours in which they end.

Left out: what is in an alarm message and where it ends, the http thread, the
other registers of the Modbus server, the connection to rtsp.

### PlcPoll

One connection, `c`, with the flags of its two events (`rActive`, `wActive`,
`rTimer`, `wTimer`, `wOut` for `write->timedout`), the handler of the write
event, and the socket as an edge-triggered epoll shows it: `edge` is a change
that is not yet reported. The handlers are functions of the connection
(`ConnectHandler`, `Polled`, `ReadHandler`, `Reconnected`), so that `Event` can
call both in one batch, as `process_events` does. `Init` is a connect in
progress: one that fails at once at start leaves `pc` unset (`plcBus.c:511`), and
what the program then writes through it is not modelled. `silent` is history. With the
sockets `"mute"` and `"none"` it marks the three ends of the chain, below.

## 3. The runs

| run | configuration | what it shows |
|---|---|---|
| `reader` | `PkgReader.cfg`: packages of 3 bytes, reads of up to 4, the smallest heap the assumption allows (7), 25 bytes per connection | types, `ReadFits`, `Window`, refinement of `PkgStream` |
| `link` | `UnixLink.cfg`: packages of 4, chunks of 6, a socket of 8, a heap of 14 | `PkgFits`, `WholePackages`, `LinkMoves` |
| `one_channel` | `DecOne.cfg`: one channel; fragments of I and P frames, camera losses | types, `WatchdogAlive` |
| `two_channels` | `DecTwo.cfg`: two channels, layouts of 1 and 2 windows; cuts and single NAL units | `ClearNotLost`, `RefusalEnds`, `CutStopsAll` |
| `fair` | `DecLive.cfg`: one channel, updates and single NAL units, fairness | `WatchdogRuns`, `Released` |
| `p_before_i` | `DecNoPBeforeI.cfg` | violation: `NoPBeforeI` |
| `frames` | `FrameAsm.cfg`: both codecs, 0 to 2 tile columns, 2 P frames between I frames, a buffer of 9 fragments | types, `WholeFrames`, `NothingLeft`, `Recovers` |
| `sessions` | `RtspSessions.cfg`: two channels and connections, one camera, layouts of 1 and 2, up to two configurations per round | types, `PoolApart`, `Watched`, `RightSocket` |
| `streams` | `RtspStreams.cfg`: one channel and connection, two cameras, every answer, up to two configurations per round, fairness | `Streams` |
| `timers` | `TimerList.cfg`: three keys, times of 1 and 2, a clock set back once, four cells | types, `ListsWhole`, `CellsBounded`, refinement of `TimerSet`, `Fires` |
| `views` | `SerialViews.cfg`: two views of the operator, one scene, two cameras (0 and 5), two nodes | types, `NodesKept`, `RowsInTable`, `ViewReturns`, `AlarmEnds` |
| `plc` | `PlcPoll.cfg`: one connection, no bound | types, `ChainAlive`, `Listened`, `TimerHeld`, `Polls` |

**Why these bounds are enough.** In the reader, 25 bytes are eight packages
against a heap of two: head travels through the heap, is compacted and starts
over several times, at every offset of a package. In the link, three package
numbers tell a package from its neighbours, the queue holds three packages and
the socket two, and lengths that do not divide each other give every
alignment of chunk and package. All lengths are even, as those of the code are
all multiples of 16, and so the heap of 14 is filled to its last byte in some
behaviours, the case `Overrun` is about. `UnixLink` may stop there, when the
decoder has read what the socket holds, so that its run does not check for
deadlock; `LinkMoves` finds a link that stops otherwise.
In the decoder, channels influence each other through `eventFlag`, the lock,
the loop over channels and `wnd` only, and two channels make each of these a
contest; what happens inside a channel is checked with one. In `FrameAsm` two
tile columns are the least with a frame of several slices, and changing
between 0, 1 and 2 is every way a counter can be wrong for the next camera: too
low, equal by accident, too high. Counts beyond all tile counts are one value
(`CountCap`), since the code only compares them for equality. The largest I
frame, two parameter sets and two slices of three fragments, has 8 fragments;
with 9 a buffer that is one fragment away from it overflows. In `RtspSessions`
clients meet only in the pool, in the batch and in the loop over the old
layout; two of each make all of these a contest: a freed connection is taken
by the other channel or by the same one, in either order. A connection that
`close_conn` does not give back (no descriptor) is lost, so with `MaxConns`
spent no new client starts; the runs up to there are those of the code.
Two configurations per round (`MaxPkgs`) are the least with which a connection
is closed and taken twice in a batch, and has its instance bit back; the
read loop of `server_read_handle` has no limit, but a third use only turns the
bit once more. The run `sessions` has one camera, which differs from itself by being
configured or not; a change of camera ends a session like an empty
configuration, and `streams` has two. It answers 200 only, since the pool and
the events do not look at answers; every answer is in `streams`.
In `TimerList` three cells are a head, a tail and one between, and the fourth, which is never
allocated, shows that three keys need no more. In `SerialViews` the queues are
first in, first out, and a view only counts once it is shown; a queue of one
delays it as long as a longer one. Two connections give an accept with and
without a free node; the second view is the last group of nine, whose rows end
the table. Camera 5 has an alarm bit that ends; camera 0 has none, and fills the
same queue with its events. `MaxQueue` and `MaxEvents` only keep operator, PLC and
cameras waiting while a queue holds that many; the time-outs of connections push
their events in any case, as in the code.

**Fairness.** `FairSpec` of `Decoder` asks that each thread runs on (strong
fairness, since it may find the mutex taken again and again: it is held for a
few instructions, and neither thread holds it while it waits), and that a timer
expires in some round: time passes. `FairSpec` of `UnixLink` asks weak fairness
of the event loop and of the decoder's reader, each of which only waits in
`epoll_wait`. `FairSpec` of `FrameAsm` asks that packages go on coming and that
the main thread runs; `FairSpec` of `RtspSessions` that the event loop goes
round and timers that are set expire in some round (strong fairness, since a
timer waits for the end of the batch), and, from `Settle` on, that cameras
accept, answer and in the end close a connection nothing happens on. `Recovers`
has the end of losses and resets as its premise. Nothing else is assumed of
cameras and packages: `LinkMoves` has "while cameras send" as its premise.
`TimerList` asks that the osal thread comes round and time passes; `SerialViews`
that both threads go on, that the Modbus timer reads events, and that each alarm
connection times out 4000 ms after it was accepted, whatever the others do
(strong fairness for these, since the vo thread does nothing else while it
copies; one condition for each node); `PlcPoll` that events are reported, each
batch before timers are looked at, that the write timer expires, and that the
network ends what it began: an open connect, a poll to a closed peer, an answer
owed. That the PLC leaves a poll unanswered is an action, and possible until
`Settle`.

### What the runs say about the code

**P frames before the I frame** (`p_before_i`, `decoder/stream.c:111`). The
branch for single NAL units ignores `waitIfream`, against the comment that
asks for an I frame first. Of P slices in one NAL unit these are the ones with
head 0x01 or 0x21; heads 0x41 and 0x61 are discarded before (`stream.c:166`).

The models show more that the code does and that no comment, doc or test
speaks of. The properties name each of these cases as an exception, and exclude
every other; the runs reach them, but where the text says so:

* A full queue tears the link for good (`rtsp/shmring.c:18`): `buf_extend`
  drops all of `unixBuf`, also the rest of a package whose beginning is in the
  socket. The decoder only counts bytes, so from then on every package is
  processed from its middle. `WholePackages` speaks of links that are not
  `torn`.
* A queue that is full to its last byte is overrun (`conn/buf.c:32`): the
  unsigned `tailTOend` wraps, the buffer is not compacted, and as soon as a
  package's length of it has been sent, `newsize` fits too, so that nothing is
  dropped and the next package is copied behind the heap. `PkgFits` says that
  this is the only way: without the exception it is violated in the run.
* A stale event passes for a new one (`conn/connection.c:160`): one bit tells a
  connection from its last use. A connection that one batch closes and takes
  twice has its bit back, and an event of the first socket is handled as one of
  the third, which is still connecting: `getpeername()` fails, the peer becomes
  0.0.0.0, the first request is sent into an open connect, and from then on
  the client tries to reach 0.0.0.0 whatever happens. This takes a round with
  several configurations that name and free the same channel. `RightSocket`
  exempts just these events (`twice`), `Streams` the clients they have spoilt
  (`Nowhere`).
* A release is undone (`alltasks.c:101`): the flags of a channel share a word,
  and a store of the main thread (`stream.c:123`, say), with the word loaded before
  the release, brings `refused` back. No timer and no event is left to lift it:
  the channel stays black until an update, a cut, an error or another refusal
  of the same channel. `RefusalEnds` and `Released` exempt just this bit
  (`restored`) and exclude any other way to lose a release.
* A key for a group that begins behind the table makes `transVo` read behind
  `camConn`: the uart thread takes any group the panel sends (`serialCtrl/main.c:57`).
  `RowsInTable` says that nothing else does, but for mixed views, below. The run
  has keys for groups that begin in the table; `RowsStayInTable` (section 4) is for all
  keys.
* `rtsp_reconnect_peer` returns -1 when `socket()` fails, which is `AIO_AGAIN`:
  no timer is set, the camera is not tried again, and its connection never
  returns to the pool (`rtsp/rtsp.c:144`). `Watched` and `Streams` speak of
  clients with a descriptor.
* A reset that one event reports together with an unread answer is never
  fetched, because a short read does not arm the read event again
  (`rtsp/rtsp.c:312`); before the read timer runs, which is behind PLAY, the
  camera is not tried again. `missed` marks these connections; without the
  exemption `Watched` is violated after nine steps. An end of the stream in the
  same place is found by the next request or the keepalive, and a reset behind
  media by the read timer; both are checked.
* A clear of the screen that was cancelled after `osalRunSystem` copied
  `eventFlag` is still executed (`osal/osal.c:29`). `ClearNotLost` is about the
  other direction.
* `check_left_freams` and `dec_buf_extend` empty the frame buffer and leave
  PKG_STARTED set, so the rest of a frame is collected and sent
  (`alltasks.c:89`, `dec_buf.c:51`). `WholeFrames` speaks of clean stretches.
* A camera connection more than there are nodes crashes serialCtrl
  (`hik_event.c:150`): `crashed`. `NodesKept` says that this takes as many open
  connections as nodes; cameras that only probe the port hold one for 4000 ms.
* The operator's view may come back late or mixed when a key falls into the
  copy (`autoTask.c:33`): `late`. Mixed, a view can name rows behind `camConn`,
  9 windows of group 5.
* The alarm bit of camera 6 is set at every turn (`plcBus.c:495`): `AlarmEnds`
  is about the others, camera 5 in the run.
* The chain of polls ends in three ways (`Stuck`): a poll that is never answered
  on a connection that stays (the read time-out returns, `plcBus.c:47`); a reset
  whose error the next `send()` takes (`plcBus.c:275`); a `socket()` or
  `connect()` that fails at once (`plcBus.c:621`). `ChainAlive` says that there
  is no fourth.

## 4. The proofs

Every invariant and action property that a run checks is proved for all values
of the constants, under the assumptions the modules state about them. Before a
proof its inductive invariant was checked by TLC on the instance of the run.
Each module of proofs ends with its theorems; the lemma that a step keeps the
invariant has one step per action. `PkgReader_proofs` and `UnixLink_proofs`
begin with the same lemmas about the byte buffer they share: what `BufExtend`,
`Written` and `BufConsume` leave of head, tail, size and the bytes that are
queued.

**`PkgReader_proofs`**, for all capacities, package and read lengths with
`PkgLen + ReadLen <= Capacity` (`ReaderAssumption`; in the code 1616 + 4096
against 32768):

* `ReaderInvariant`: `Spec => []Inv`. `Window` alone is not inductive: the next
  receive needs that less than one package is left (`Drained`) for its room,
  and `BufferOK` (head <= tail < capacity, size = tail - head) for the lemmas
  about the buffer.
* `ReaderTypes`, `ReaderWindow`, `ReaderFits`, `ReaderImplementsStream` follow
  from it.

**`UnixLink_proofs`**, for all lengths of package, chunk, read, socket and
heap with room for one package (`LinkAssumption`).
`LinkInvariant` keeps `Stream` (what the decoder has of a package, the socket,
the queue) made of whole packages when nothing was torn (`Whole`): every byte is
the first byte of its package plus its place in it. `WholeRest` and its
companions show that this survives what is appended behind and taken off in
front; the rest is moving bytes from one of the three to the next. The tail may
be at `Capacity`, one further than `PkgReader` ever has it, and then `BufExtend`
neither compacts nor, once enough is sent, drops: this is what `FitsLemma` singles out.
`LinkTypes`, `LinkKeepsPackages` and `LinkFits` follow.

**`Decoder_proofs`**, for every number of channels, set of layouts and set of
package kinds:

* `DecoderInvariant`: `Spec => []Inv`. The properties say "a timer, an event,
  or seen by the running handler"; what is inductive is sharper. While a handler
  runs, only its copy of `eventFlag` counts, because its return overwrites
  the flag (`ClearInv`, `ReleaseInv`, the latter on the stored bit); nobody sets an event of
  `dec_reset_handler` while the main thread is between the halves of a cancel
  (`LockHeld`); the check is a timer again before the handler gets to the
  channels (`WatchdogInv`); a cut has stopped all channels before the one it
  is at (`CutInv`).
* `DecoderTypes`, `NoClearLost`, `EveryRefusalEnds`, `CheckNeverDies`,
  `CutStopsAllOld` follow from it.

**`FrameAsm_proofs`**, for every finite choice of tile columns, every number of P
frames between I frames and every buffer that holds the largest frame
(`FrameAssumption`). `WholeFrames` speaks of the moment a frame is complete;
`Inv` says for every place of the camera within a frame what `started`, the
counters and the buffer are, once for the time between two packages (`Between`,
`BetweenBuf`) and once for the time behind an unpacker and before `do_decode`
(`Unpacked`, `UnpackedBuf`). The buffer holds an unbroken stretch of the frame that ends
at the fragment sent last. `FrameTypes`, `FramesWhole` and `FrameLeavesNothing`
follow from `FrameInvariant`.

**`RtspSessions_proofs`**, for every number of channels and connections and
every set of cameras and layouts:

* `PoolInvariant`: a connection that `get_conn` may give out (in the cache, or
  never allocated: `Unused`) has no client, no socket, no timer, nothing to
  report, and no event of its own in the batch. That the cache gets no
  connection twice from `close_conn` is `ClosedOntoLemma`, an induction over
  the channels; that an event or a timer belongs to a client, so that no step
  of the loop touches the pool, is `InUse`. `SessionTypes` and `PoolStaysApart`
  follow, for any number of configurations in a batch.
* `LoopInvariant`, for any number of configurations in a batch: every event in the
  batch is of the socket its connection has now, or `Stale` says so, or the
  connection was closed again since (`EventsOK`, with `twice`), and a socket
  without write timer reads, and has its end to come, reported in `news`, fetched
  in the batch, or noticed by the read timer (`NoTimer`). `Watched` alone is not
  inductive: the next read may take the answer behind which a reset lies, so
  the invariant also says that such a reset is reported once more or the
  session has come to PLAY, after which every read sets the read timer.
  `ClientsWatched` and `RightSockets` follow.

**`SerialViews_proofs`**, for every set of keys, scenes and cameras, and any number
of nodes. `ViewInvariant` has the types and `NodesApart`: no node is twice in the
cache, and it is there if and only if it has no connection. `ViewTypes` and
`NodesAreKept` follow. `RowsStayInTable` needs nothing of the panel: its invariant
says that a copy that is not `late` is the last key, field by field
(`KeyStored`, `CopyOnTime`), so that every view on time is a key, an alarm or a
scene; `GroupsFit` says that the limits for 9-3 and 6-5 are all that transVo
needs for a group that begins in the table, and `KeyFits` applies it to a key.

**`PlcPoll_proofs`**: the model has no constant, so that the theorems add
nothing to the run but the reason: `Alive`, `Heard` and `Held` as predicates of a
connection that each handler keeps whatever it found. `ChainNeverBreaks`,
`AnswersHeard`, `TimerThere` and `PollTypes` follow from `PollInvariant`.

**`TimerList_proofs`**, for every finite set of keys, every heap, all durations
and clock corrections (`CellAssumption`):

* `TimerInvariant`: `Spec => []Inv`. `ListsWhole` speaks of the walks from the
  head and from the cache, and a step cannot be followed along a walk. `Sound`
  says instead that there are two sequences of cells `a` and `f`: `a` has no
  cell twice, is linked forwards and backwards, begins at the head and ends at
  the tail (`Pending`); `f` is the free list (`Free`); both together are the
  cells ever allocated, and no key has two cells (`AllThere`). A new timer
  appends to `a`; a released cell leaves `a` at the head, at the tail or between,
  and is put before `f` (`AddedLemma`, `ReleasedLemma`: the four links of
  `timers.c`, case by case).
* `TimerListsWhole`: `WalkLemma` shows that a walk of at most `MaxCells` links
  finds exactly such a sequence. `TimerCells`: a cell comes from the heap only
  when the free list is empty; the pending cells are then an injection into the
  keys without the new one (`HeapLemma`). `TimerTypes` is part of `Inv`.
* The loop of `timerUpdate` changes the list it walks. Its invariant (`Sweeping`)
  says that the cells behind the walk are not due, those that were released were
  due and have their keys in the set, all the others are as before; each turn
  shortens what lies ahead, so that after `MaxCells` turns nothing does. Hence
  `SweptLemma`: exactly the cells that are due are released.
* `TimerRefinement`: every step of the list is a step of `TimerSet`, with
  `UpdateMaps` (the loop expires all the keys that are due and no other) as its
  core. This is the safety part of `TimerSpec`; that the fairness of `Update` and
  `Tick` is the fairness of `Expire` and the abstract `Tick` speaks of ENABLED and
  stays with TLC.

Only model-checked: the liveness properties and the fairness part of
`TimerSpec` (the prover has neither fairness nor ENABLED). Induction works here
for sets of numbers, from the well-foundedness of `<` (`NatSetInduction` of
`RtspSessions_proofs`, `Induction` of `TimerList_proofs`), not with the theorems
of the library that take an operator; and the SMT backend is lost to recursive
operators. For these reasons `ClosedOnto` of `RtspSessions`, `From` and `Swept` of
`TimerList` are recursive functions.

## 5. What is not modelled

Left for later, in this order:

1. `BufRace`: the stores of `dec_buf_init` on the osal thread against those of
   `dec_buf_append` on the main thread.
2. `PoolLink`: the other connections of the pool, those accepted on port 10000
   and the link itself, which `server_read_handle` closes while its global
   pointer stays in use (`rtsp/main.c:50`).
3. Requests taken in part and answers in pieces in `RtspSessions`; the state of
   the decoder's channels (CFG_CHNERR, CFG_SUBWIN) that the sessions cause,
   composed with `Decoder`; the shared session of the Modbus server.

Not planned: parsing and formatting of HTTP, SDP, SQL and PPS; md5, base64 and
the red-black tree (standard algorithms without protocol state); SDK wrappers;
tools and third-party code.

The greater part of the repository by lines is of the last kind: the chip
vendor's samples and headers (`fy_test`), tinyxml2 and its tests, tinyhttpd,
older copies of the event loop. The program's own code, without them, is about a
fifth of all lines, and of that again parsing, formatting and device calls are
the larger half. The share of lines with a model is small for that reason; the
state machines in them are listed above.
