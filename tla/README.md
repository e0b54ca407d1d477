# rtpCapture in TLA+

rtpCapture records RTP streams to files.  A program adds *sessions*; each one
gets RTP packets, either from the program itself (`onRTPData`) or from two UDP
ports that the SDK listens on, and writes them to an FLV file, or verbatim for
cameras that send an MPEG program stream.  The library is about 900 lines in
`src/src/`; it links Poco (reactor, threads, mutexes, memory pool) and
srs-librtmp (FLV writer), both vendored.

## The system

| component | state | operations | modules |
|---|---|---|---|
| `Poco::MemoryPool` | free blocks, blocks allocated | get (may throw), release | `MemoryPool` |
| `RTPSession` (Header.h) | id, `bufferList`, `bufferMutex`, the static id counter | new, delete, push, pop | `RTPSession` |
| `ReceiverCenter` with `RTPHandler` | `m_sessionMap` and its mutex, handlers with two sockets each, the reactor thread T1 | onRTPData, add and delete, the two readable callbacks | `ReceiverCenter`, `SessionReceiver` |
| `Poco::Net::SocketReactor` and notifications | handler map, notifiers with events and observers, their mutexes | run, dispatch, addEventHandler, removeEventHandler | `SocketReactor` |
| `CaptureCenter` | `m_sessionVector` and its mutex, the thread T2, `m_stop` | add, delete, `run`, destructor | `CaptureCenter`, `CaptureStop` |
| `RTPCaptureSDK` | `m_sessionMap` (no mutex) | add, delete, onRTPData | `RTPCaptureSDK`, `Recorder` |
| `RTPDump` | parameter sets, the NAL unit and the frame in assembly, two clocks, camera type, the files | rtpHandler, destructor | `RTPDump`, `RTPStream`, `RTPClock`, `DumpBuffers` |
| FLV writer of srs-librtmp | file descriptor | open, header, tag, close, and the decoder | `FlvWriter` |
| C API (`RTPCapture.cpp`) | the global SDK pointer | add, delete, onRTPData | `CApi` |
| the demos and the packet sender | | | only for the inputs that they give |

How they interact: producers (any application thread in `onRTPData`, and T1 for
sockets) take a block from the pool, fill it and append it to a session's
`bufferList`.  The consumer T2 goes round all sessions, hands each packet to the
session's `RTPDump`, which writes FLV tags, and gives the block back.  The
application thread adds and deletes sessions.  The session object itself is
shared by raw pointer: it is in three containers
(`RTPCaptureSDK::m_sessionMap`, `ReceiverCenter::m_sessionMap`,
`CaptureCenter::m_sessionVector`) and in its `RTPHandler`.  Three kinds of mutex
are involved, nested as *map -> buffer* for a feeder and *vector -> buffer* for T2
and for a deletion; the reactor adds its own, nested as *map -> notification
center -> observer* when a handler is removed.

What is hard here, and what must hold:

* **lifetime of sessions**: `delCaptureRtpSession` unregisters a session from the
  vector and the SDK's map only.  Correct: nobody works on a deleted session;
  a file gets the packets of its own session only.
* **removing a handler** while the reactor is anywhere in its round: it has
  collected sockets, copied observers, or is in the callback.  Correct: when
  the removal has returned, nobody is on the session and nothing of it is left.
* **ownership of blocks**, which pass between four kinds of threads, with an
  exception when the pool is exhausted.  Correct: each block is in one place,
  and none is lost.
* **locks**, held by T2 during file I/O and across early returns and exceptions.
  Correct: exclusion, no lock left behind, every call returns, the destructor
  too.
* **order**: what a session accepted is recorded in that order, without a gap.
* **loss and reordering by UDP** in RTPDump, which looks at no sequence number.
  Correct: the file stays readable, the recorder finds its feet again, its fixed
  arrays hold what comes, and its clocks follow the recorded time.
* **a full disk, or the end of the process,** in the middle of a tag.  Correct:
  what was written before is read back.

## Modules

`MemoryPool`, `RTPSession`
: the pool and the session objects, parts that the next two share.  Sessions are
  heap *addresses*, so that a pointer can dangle and an address can be used
  again.  A push through a dangling pointer waits for and appends to the session
  that is now at the address, or, when there is none, loses its block.

`ReceiverCenter`
: `OnRTPData` is the call, `Refuse` its three ways out without a packet queued
  (unknown id, too long, pool exhausted), `Fill` the critical section up to the
  lock of `bufferMutex`, `PushCall` the push and the return.  `Arrive` is the
  network; `OnSocketReadable` and `PushDatagram` are the two halves of a
  callback, which differ from `onRTPData` in that they look at no map.

`CaptureCenter`
: `run` in its steps (`StartRound`, `EnterSession`, `Record`, `ReleaseRecorded`,
  `LeaveSession`, `EndRound`), `CaptureAdd`, and `delCaptureRtpSession` as
  `CaptureDelFind`, `LockBuffer`, `CaptureDelDrain`, `CaptureDelErase`.

`RTPCaptureSDK`
: the composition.  `AddSession`, `AddToReceiver` (or `BindFails`) and
  `AddToCapture` are one call of `addCaptureRtpSession`; `DelSession` to
  `DelFree` one of `delCaptureRtpSession`.  The constant `Disciplined` says
  what the program around the SDK promises.  TRUE: it uses an id only between
  its add and its delete, deletes a session when no packet is on its way to
  it, which includes that nobody sends to its ports any more, and keeps no
  session while the counter makes a whole turn of 2^31 ids; nothing is sent to the
  ports of a session whose add has failed or that is being deleted (`Serves`).
  FALSE: nothing.
  What the code guarantees without help is checked and proved for both; what it
  guarantees only to a disciplined program is said so at the property.

`Recorder`
: the abstract specification: sessions open and close, accept packets and record
  a gap-free prefix of what they accepted.  No threads, locks, pointers, pool.
  `RTPCaptureSDK` has the refinement mapping (`R`).

`RTPDump`, `RTPStream`
: `RtpHandler` with its paths (audio, program stream, H.264, other), the camera
  detection, FU-A reassembly (`Reassembled`), parameter sets, slices and frames.
  Memory that is read before it is written (a NAL header byte that no start
  fragment has set, the `sps` array) is a choice over all values, or `Unset`.
  Opening may fail for both files: for the FLV file it is tried again with the
  next packet, for `m_psOutfile` never, as nobody asks it (`psOutfile`), and every
  write is lost without a word.
  `RTPStream` puts a sender and a network that loses and delays before it, and the
  audio socket, whose packets come between any two others (`Aside`); its
  history variable `got` lists what reached the session, `unbroken` says that
  all did.

`RTPClock`
: one clock of RTPDump, `audioHandler`'s or `videoHandler`'s by its constants:
  base, time of the packet before, the gap of more than a second that is taken
  out by moving the base, the int that wraps, the way through `u_int32_t` and
  the 31 bits of the tag.  `pos` is a history variable, the recorded time.

`DumpBuffers`
: the lengths `m_nal_length`, `m_length` and `sps_size` for a camera that sends
  bounded units and frames to a network that loses bounded runs of starts and
  markers.  The rest of RTPDump's control is not repeated here.

`SocketReactor`, `SessionReceiver`
: the reactor's round (`Collect`, `Select`, `Dispatch`, `Post`, `Notify`, the
  callback, `EndRound`) and the steps in which a handler is registered and
  removed; above it `addCaptureRtpSession` and `delCaptureRtpSession` of
  ReceiverCenter with the constructor and destructor of `RTPHandler`, and
  feeders.  The SDK never calls that deletion; the module tells what it would
  give if it did.  The constructor's steps are not under the reactor's mutex
  (a `std::set` that T1 reads meanwhile): an insertion is one step.

`FlvWriter`
: `OpenWrite`, `WriteTag`, `Write` (one `write()` of an iovec, all of it or what
  there is room for), `WriteFails`, `Close`; around them a process that dies, a
  disk that others use, and a standard input that may be closed, so that a file
  gets descriptor 0.  `ReadTags` is the library's decoder.  A tag is a few cells
  (header, data, size field), not bytes.  One call runs at a time, as T2 alone
  writes.

`CaptureStop`
: `~CaptureCenter` against `run` and receivers that never stop.  Packets are
  counted, not told apart, so that nothing bounds them but the pool.  A push is
  one step.  What is still queued at the stop stays unrecorded in the lists.

`CApi`
: the three C functions, with the test, the creation and the use of the global
  pointer as steps of their own; a call of the SDK is one step.

`MCLifecycle`, `MCStream`, `MCClock`, `MCReceiver`
: the instances for TLC.

`RTPCaptureSDK_proofs`, `RTPStream_proofs`, `RTPClock_proofs`, `DumpBuffers_proofs`,
`SessionReceiver_proofs`, `CApi_proofs`, `FlvWriter_proofs`, `CaptureStop_proofs`
: the proofs.

`PROJECT.json` maps each definition to the lines it stands for.

Mutants: operators under a comment that begins with "Mutant" are variants of the
definition that follows, each with one plausible bug, and are used by nothing
else.  `PROJECT.json` names for each property a mutant that violates it.

## What the runs show

| run | question | bounds |
|---|---|---|
| `disciplined` | `NoBlockLost`, `NoDanglingPush`, `NodeFits`, `Deletable`, `BlockExclusive`, `ImplementsRecorder` | 2 addresses, 1 feeder and 1 socket per session, 3 adds over 2 ids, 3 packets of lengths 2, 3 and -1 against a block of 2, a pool of 1 block that grows to 2 |
| `stray` | without discipline: `TypeOK`, `LocksHeld`, `CaptureSideSafe`, `BlockExclusive`; under fairness `CallsReturn`, `PacketsSettle` | 2 addresses, 2 adds over 2 ids, with and without ports, 2 packets, a pool of at most 1 block |
| `stale_id` | expected violation of `RecordedIsOwn` | see findings |
| `empty_datagram` | expected violation of `PacketsSettle` | see findings |
| `stream` | `FramesInOrder`, `HeaderUnbroken`, `DumpTypeOK`, `FileWellFormed`, `Resynchronises`, `MarkerFlushes`, `OneWriter`, `ProgramStreamVerbatim` | three cameras: 17 packets of type 98 without loss, 9 of type 96 with 2 lost or late, 6 of a program stream with 3, and an audio packet anywhere; the session begins at any packet; opening either file may fail |
| `two_of_a_kind` | expected violation of `HeaderComplete` | see findings |
| `receiver` | `TypeOK`, `NoUseAfterDelete`, `NothingLeft`; under fairness `CallsReturn`, `EachServed` | 2 sessions with 2 sockets each, one of which throws, 1 feeder, 1 datagram per socket; no bound on calls |
| `clock` | `Tracks`, `NoLeap` | ints of 6 bits, 3 ticks to a millisecond, 4 first timestamps, 8 steps between -4 and 30 ticks, a recording of 31 ticks |
| `buffers` | `TypeOK`, `NalFits`, `FrameFits`, `SpsFits` | units of 5 bytes, SPS of 2, 2 units a frame, 1 start and 1 marker lost in a row |
| `flv_full` | `ReadsBack`, `NoDescriptorLost` | 1 file, 3 tags of 1 or 2 cells between headers of 2 and sizes of 1, room for 0 to 5 cells |
| `stop` | `BlocksAccounted`; under fairness `StopReturns` | 2 sessions, 4 blocks; no bound on packets |
| `api` | `EachReachable` | 1 adding thread, 2 feeders, 4 adds, 4 packets for any id |

Why the bounds are enough for what is asked.  Two addresses and more adds than
addresses let an address be used again; more adds than ids let an id be used
again (`MaxInt = 1` gives the ids 0 and 1, and the counter starts at 0, so that
the first id is 1 and the second one wraps).  A longer
life of the SDK has one more case: `m_sessionMap` names an address that a session
has again which was never added, as its ports could not be bound.  It takes five
adds (`MaxAdds = 5`, `MaxPackets = 2` in `LifecycleDisciplined.cfg` check it in the
same time), and is covered by the proofs.  The pool has one block less than
there are packets, so that it runs out; in `disciplined` it also grows.  A feeder
and T1 are two producers that compete for one session, and T2 and a deletion the
two consumers.  `size_t` counts modulo 8 (`SizeModulus`), which tells a length of
-1 from one that fits as 2^64 does.  The bounds `MaxAdds` and `MaxPackets` stop
the program and the network only; everything that has begun can end.
`Symmetric` (addresses, feeders) is used by runs of invariants and of the step
simulation of `Recorder` only, never with fairness.

The streams have each form of packet that `rtpHandler` tells apart: parameter
sets, a frame of one and of two slices, whole, in two and in three fragments,
units that are ignored, audio, and packets that are ignored.  In `clock` the four
first timestamps put the wrap of the int before, behind and inside a recording,
and the steps lie on both sides of the gap (6 ticks) and go back.  In `buffers`
one lost start or marker more or less is one unit or frame more or less, so that
a second one shows nothing new, and what a lost start leaves of a unit can be
longer than an SPS.  In `flv_full` the disk can run full at each cell
of a tag, and 5 cells hold two tags.

`CHECK_DEADLOCK FALSE` stands only where the system does stop: the stream runs
when the session is deleted and the stream is over, `clock` at the end of the
recording (`MaxPos`), `stop` after the join when all blocks are queued, `api`
when the bounds on calls are reached.  The other runs check for deadlock.

**Fairness.**  Nothing makes the program call or the network send.
In `stray` a call that has begun goes on, T1 serves every readable socket in each
round of the reactor (weak fairness per socket), and T2 runs for ever.  The steps
that lock have strong fairness: a Poco FastMutex is not a fair lock, but T2
sleeps 100 microseconds without its mutexes after each round without work, and
traffic that stops lets it come to such a round.
In `receiver` T1 and a call in progress have weak fairness, the two steps that
take `m_sessionMapMutex` strong fairness, as feeders keep it for one memcpy and
leave it between two packets.  `EachServed` has one excuse, `Interrupted`:
`select()` throws for a socket that was closed after the round had collected it,
and a program that deletes sessions without end can do this to each round.
In `stop` T2 and the join have weak fairness; receivers have none, and the
property is that they cannot prevent the return even when they never pause.
`PacketsSettle` lets a packet be `Astray`: in a program without discipline it may
be queued in another session's list or lost with its block.

**Findings** (quoted with their lines in `PROJECT.json`):

* `stale_id`: a packet handed in for a deleted id is recorded in the file of a
  later session at the same address, as `ReceiverCenter` is never told of the
  deletion.
* `empty_datagram`: a datagram without payload blocks its socket for good:
  `available()` gives the size of the first datagram and the callbacks take it
  for "is there anything".
* `two_of_a_kind`: `is_sps_pps_ok` counts parameter sets without their kind; a
  PPS, and the next one after a lost SPS, make a header from an `sps` that
  nothing has set.

Five more disagreements were met, and are stated by no run of their own; the
first four are the reasons for conditions that the runs and theorems name.

* `RTPDump.cpp:202`: the distance from the base is an int.  From 2^31 ticks on
  (6.6 hours at 90 kHz), and for a packet older than the first one, it is
  negative, and the tag is 24 days ahead.  `Tracks` and `NoLeap` therefore have
  `MaxPos < Half` and `~LateAtStart`; TLC finds them violated without.
* `RTPDump.cpp:189`: a base of 0 stands for `not set`.  Where the base is that
  number each packet sets it anew (`ZeroBase`).
* `Header.h:20`: the counter that wraps asks for no id that is in use.  A session
  that lives through 2^31 adds loses its id to a new one and can be deleted no
  more.  `AddSession` has the condition for a disciplined program.
* `srs_kernel_file.cpp:136`: a `write()` that takes a part of a tag is a success,
  although `srs_librtmp.hpp:542` says "0, success; otherswise, failed".
  `ReadsBack` is about what came before the first such call.
* `RTPCapture.cpp:26` passes 90000 whatever `videoFrequency` the caller of the C
  API gives (`RTPCapture.h:10`).

**What the runs exclude.**  Some hazards lie outside the conditions under which a
property holds, which then does not catch them; `PROJECT.json` says so at each.

* A deletion with a receiver on its way, which `Quiet` keeps a disciplined
  program from: without that guard TLC finds `NoBlockLost` and `NoDanglingPush`
  violated (a block is lost with the freed list).  What holds all the same, in
  `stray` and as the theorem `BlocksExclusive`, is that no block is ever in two
  places.
* Timestamps older than the first or 2^31 ticks later, and a base of 0, which
  `Sane` excludes.  `Tracks` and `NoLeap` are about wraps and gaps inside these
  bounds.  A pause that reordering alone makes is one for `pos` as well, as it
  follows the code's own test for a gap.
* A session that begins inside a fragmented unit (`JoinsInside`): with it TLC finds
  an SPS in `sps` that is longer than any that the camera sends.  `SpsFits` shows
  that lost starts do not bring that about.
* Two parameter sets of one kind: `HeaderUnbroken` is for sessions without loss;
  `two_of_a_kind` shows what one lost packet does.
* A second thread that adds through the C API (`OneAdder`), see below.

Where two threads add through the C API, TLC finds `EachReachable` violated
(`Adders = {a1, a2}`): both create an SDK, and the first one's sessions are
hidden.  Nothing in the repository says whether that is allowed.

## What is proved

For every value of the constants that satisfies the named assumptions.

**RTPCaptureSDK_proofs**, first part, for both values of `Disciplined`: `TypeCorrect`,
`MutexesCorrect`, `CaptureSideCorrect` (`Spec => []` of `TypeOK`, `LocksHeld`,
`CaptureSideSafe`).  They follow from `Invariance`, `Spec => []IInv`, where `IInv`
is

    TypeOK /\ LocksHeld /\ CaptureSideSafe /\ IteratorValid /\ AppSession

The three goals are not inductive together.  `BufferLockHeld` names T2's session
as `sessionVector[it]`, so that erasing from the vector would move it: that
needs `IteratorValid` (the iterator points into the vector while a session is
being drained) and `VectorLockHeld` (nobody erases while T2 iterates).
`CaptureSideSafe` needs `AppSession`: the session that a running add or delete
works on is live, is not yet in the vector during an add and is no longer there
when it is freed, and every session of the SDK's map is live.  The lemmas go
conjunct by conjunct, each with one step per action that can disturb it.

**Second part**, again without discipline: `BlocksExclusive` and
`NodesFitBlocks`.  `Exclusive` says the same as `BlockExclusive` in the form that
steps preserve: the pool, the hands of threads and the positions of lists are
places, and no block is in two of them; lemmas say what a get, a push, a pop, a
release and a cleared list do to places, and each action is one of these.
`NodesFit` adds to `NodeFits` the node in a receiver's hand.

**Third part**, for `Disciplined = TRUE`: `PushesSafe`
(`NoDanglingPush`), `SessionsDeletable` (`Deletable`), `BlocksNotLost`
(`NoBlockLost`), `FilesOwn` (`RecordedIsOwn`) and `Refinement`
(`ImplementsRecorder`).  The invariant is built in three layers over `IInv`.

* `DInv`.  *The book*: the SDK's map and the ReceiverCenter's agree on each id in
  use (`Registered`), and App's call works on its entry (`AppEntry`).  *Served*:
  who is on its way to a session - a call, T1, a datagram in a socket - is on its
  way to one that is `Good`: live, of that id, the one that the map names, and
  not being deleted.  A deletion waits until nobody is on its way, and all other
  steps pass the service on.
* `LInv`.  *Captured*: a session of the SDK's map is in the vector until it is
  freed, so that a deletion always drains its list; *Emptied*: the list of a
  session that is gone or about to go is empty; *Covered*: each block is free, in
  a hand or in a list.
* `OInv`.  *OwnPackets* and *ListsOwned*: a list has packets of its own session,
  and has some only while the session is added, or all but added.  *InOrder*: a
  packet in a call, in T1's hand or in a socket is newer than all that its source
  has brought into the session's list or file, one in a socket is newer than those
  before it, and only the last handler of an id has datagrams.

The refinement then has one lemma for each kind of step: a push is `Accept` (its
`Newest` is `InOrder`), T2's pop is `Record`, the lock of `bufferMutex` by a
deletion is `StartClosing`, its pops are `Drop`, `delete` is `Close`, and
`ReceiverCenter::addCaptureRtpSession` is `Open`, or the constructor is, when it
gives a session the address and the id of one that the map still names.  All
other steps change nothing that the mapping shows.

**RTPStream_proofs**, for any packets, losses and delays: `DumpTypes`
(`DumpTypeOK`); `FileReadable` (`FileWellFormed`; `FileInv` ties the tags in the
file to `isVideoBegin`, the open file and `is_sps_pps_ok`);
`ProgramStreamsVerbatim` (`ProgramStreamVerbatim`, with both outcomes of
`m_psOutfile.open`: the whole stream from its first packet on, or nothing ever;
`PsInv` adds that nothing that could be in the file came while the camera was not
known); and `WritersApart`
(`OneWriter`), for senders whose video keeps to one payload type,
`OneVideoType`: with two types both files can be open.

The others are about what a camera's frames become, and assume `Orderly`, which
is `OneVideoType` and `WellPacketised`: units are cut into fragments from their
start bit to their end bit with no packet of the stream between, a frame is a run
of slices, and the marker is on its last packet.  A sender of H.264 over RTP does
that; nothing is assumed about which units there are, how long they are, where
audio comes in between, or what the network does.  TLC evaluates both for the
cameras of the runs (`MCHypotheses` in `MCStream`).

* `FramesRecovered` (`Resynchronises`) and `MarkersFlush` (`MarkerFlushes`), with
  losses.  A frame that came in one piece is a property of a run of `got`, so
  that the invariant says what holds in the middle of such a run (`Underway`):
  the parameter sets are complete, the NAL header byte is that of the unit the
  last packet belongs to (`Tracked`), and, when `video_data` was empty at the
  beginning, it holds exactly the units of the frame that have ended so far.
  After the frame's last packet it is empty, whatever it held before.
* `FramesComplete` (`FramesInOrder`), without loss.  `OrderInv` says that the
  next packet is the one behind the last, and that whatever lies in `video_data`
  is a frame `Underway` since its beginning.  The frames in the file are then
  those that `got` has whole (`Due`), and the two grow together.
* `HeadersComplete` (`HeaderUnbroken`), without loss and for alternating
  parameter sets: `SetsInv` says that the one set that has been counted is the
  last one sent, so that the next one is of the other kind.

The properties count (the k-th frame in the file, the unit at a position)
rather than build sequences, as the provers know little of `SelectSeq` and folds.

**RTPClock_proofs**: `TagsTrack` and `TagsNear`, for ints of any width, any rate,
gap and steps, under `Sane` (`MaxPos < Half`, nothing older than the first packet,
no base that is 0).  `Distance` is the invariant: the wrapped distance of the last
timestamp from the base is the recorded time, in whatever turn of the int the
two are.

**DumpBuffers_proofs**: `BufferTypes` (`TypeOK`), `NalLengthBounded`,
`FrameLengthBounded`, `SpsLengthBounded`.  The invariant bounds each length by
what the starts and markers missed so far account for.

**SessionReceiver_proofs**: `ReceiverTypes`, `DeletedUnused` and
`DeletedForgotten` (`NoUseAfterDelete`, `NothingLeft`), for any number of sessions
and feeders and any sockets that throw.  `IInv` has `MapGuarded` (who has found a
session holds the map's mutex), `CallbackGuarded` (a callback holds its
observer's mutex, and its observer is enabled), `Progress` (how far each step of
the destructor has come) and `DeadUnknown` (nothing knows a session that is not
live).

**CApi_proofs**: `Reachable` (`EachReachable`), for one adding thread (`OneAdder`)
and any number of feeders.

**FlvWriter_proofs**: `Descriptors` (`NoDescriptorLost`) and `TagsReadBack`
(`ReadsBack`), for any number of files, any lengths of headers and data, and any
disk.  For the first, `DescriptorInv` says that no two writers have the same
descriptor and none has one of the process's own; that `open()` finds one at all
is a matter of counting (`FreeFdFree`).  For the second, the invariant says what a
file looks like at each point of a call: `Short` while the file's header is being
written, `Ready` between tags, `InTag` with the iovecs that are left.  Its heart
is `Whole(d, W)`: the contents `d` are the tags `W` and nothing else, and whatever
is appended to `d`, the decoder reads `W` first; `WholeNext` adds one tag.  Once a
write was short or failed, only `Kept` is left: what was whole is still read
first.

**CaptureStop_proofs**: `NoneLostByStopping` (`BlocksAccounted`), for any number of
sessions and blocks.  `StopInv` ties T2's block to its step and has the sum of all
places; lemmas say what a change of one list does to the sum.

The assumptions on constants say that threads, sockets and null values are told
apart, that sizes and bounds are numbers, and that the ints of `onRTPData` lie
within `size_t`; TLC evaluates them in the runs.

The decoder and the sum are recursive functions.  The library's induction
theorems take an operator as a parameter, which the provers cannot instantiate;
induction here is over a set of numbers instead (`Least`: a set of numbers has a
least element, from the well-foundedness of `<`; `Ladder`: a set with 0 and all
successors has all numbers), and from it follow the equations of those
functions.

Each invariant that a passing run checks is also a theorem, and so is the
refinement of `Recorder`; where one has a condition (`Disciplined`, `Sane`,
`Orderly`, `OneVideoType`, `OneAdder`) the instance of the run satisfies it.
Only model-checked are the liveness properties `CallsReturn` (of both modules),
`PacketsSettle`, `EachServed` and `StopReturns`, as fairness and ENABLED are
beyond the prover.  The modules that are proved about hold no RECURSIVE operator.

## Not modelled, and why

* **Nearly all of the repository's lines.**  Of some 373000 lines about 900 are
  the SDK; the rest is Poco 1.6.1 (regular expressions, XML, databases, HTTP,
  ...) and srs-librtmp (RTMP, HTTP, AAC, ...), of which the SDK runs a memory
  pool, a reactor with its notifications, mutexes, threads, and the FLV writer.
  These are modelled; a model of the others would say nothing about this
  program.
* `Poco::Thread`, `Mutex`, `ScopedLock`: by what they do, as steps and owners of
  mutexes.  Timeout, idle, shutdown, writable and error notifications of the
  reactor have no observer here, and `SocketReactor::stop` no caller.
* `~RTPCaptureSDK` and `~ReceiverCenter` are empty; nobody destroys the
  CaptureCenter of a running SDK, so that `CaptureStop` is about the class alone.
* `receiveBytes` that throws after `get()` would lose a block; a socket that only
  receives has no error to report between `available()` and the read.
* logging, `usleep`, the layout of FLV tags and of the sequence header.
* writes that fail to a file that is open: in `RTPDump` what is handed to an open
  file counts as written.  For the FLV file, whose errors `RTPDump` logs and goes
  on, they are in `FlvWriter`; for `m_psOutfile` (`RTPDump.cpp:111`), a buffered
  `std::ofstream` that nobody asks, they are not modelled.
* packets with 12 bytes and no payload (`RTPDump.cpp:66`), a `videoFrequency` below
  1000, two sessions with one file name: nothing in the repository makes these.
* the two clocks together: each takes out its own gaps, and nothing says how
  they relate.
* adding and deleting from more than one thread: the SDK's map has no mutex, and
  no program in the repository does it.

## What is left

A composition of `SessionReceiver` with the pool and the capture side, to show
the SDK with a `delCaptureRtpSession` that tells both centers.
