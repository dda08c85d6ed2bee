# A TLA+ model of Rockit

Rockit is a multimedia player: an application drives a player object, whose
commands run on the thread of a message looper; the player drives a chain of
nodes (demuxer, decoder, audio sink) over a node bus; a deliver thread moves
packets and frames between the nodes; the demuxer, the decoder and the sink
each have a thread of their own; packets and frames travel in buffers that
pools lend. What is hard in this code is that up to six threads meet in it,
that most of the fields they share are plain variables without a lock, and that
a command of the application (start, seek, stop, reset) has to make all of
them do the right thing in whatever they are in the middle of. Below them lie
libraries that keep their lists, records, handles and volumes by hand, where a
call that fails half-way is what a test hardly reaches.

This directory has a specification of each of these parts, TLC configurations
that check them on small instances, and proofs, checked by TLAPS, of what holds
for every instance. `PROJECT.json` says for every definition which lines it
models, lists the runs, the mutants (a plausible bug for each checked property,
which the run must find), the hazards with the properties that cover them, and
the theorems.

To check one run: `tlc -workers 2 -config NodePlayer_pass.cfg MCNodePlayer`; to
check the proofs of a module: `tlapm NodePlayerProofs.tla`.

## Inventory

| Component (under `src/src`) | State | Operations | Talks to |
| --- | --- | --- | --- |
| Message looper `rt_task/rt_msg_looper`, `rt_message` | event queue, `mErr`, two conditions, thread state | `post`, `send`, `flush`, `flush_message`, `requestExit`, `stop`, the loop | senders wait for the handler; the handler posts to its own looper |
| Threads and locks `rt_base/linux` | `mLoopState`, thread id, mutex, condition | `start`, `requestInterruption`, `join`, `wait`, `signal`, `broadcast` | everything |
| Buffer pool and buffers `rt_media/RTMediaBufferPool`, `RTMediaBuffer` | list of buffers, `mRunning`; count, observer and payload of a buffer | `registerBuffer`, `acquireBuffer`, `start`, `stop`, `releaseAllBuffers`; `addRefs`, `release`, `setData` | decoder, deliver thread and sink hold the buffers |
| Player `rt_player/RTNDKNodePlayer` | player state, position, wanted and saved seek, seek flag, deliver thread | commands, `postSeekIfNecessary`, `onSeekTo`, message handler, `startAudioPlayerProc`, `writeData` | looper, node bus, nodes |
| Facade `rt_player/RTNDKMediaPlayer` | `mCmdLock` | every call sends a command and waits | looper |
| C interface `rt_player/RockitPlayer` | two players, the protocol in use, the stop flag, two locks, a reader thread per PCM file | `Play`, `PlayAudio_PCM`, `Write`, `Stop`, `Pause`, `Resume`, `Seek`, `Release`, the callback | both players |
| Node bus `rt_node/RTNodeBus`, `RTNode` | chains of nodes per line, table of nodes, metadata | `autoBuild`, `autoBuildCodecSink`, `excuteCommand`, `findNode`, `releaseNodes` | nodes |
| Demuxer `rt_node/ff_node/FFNodeDemuxer` | node state, end flag, seek request, used tracks, thread | `onPrepare/Start/Pause/Seek/Flush/Stop/Reset`, `runTask`, `pullBuffer` | packet caches, FFmpeg |
| Packet caches `rt_media/RTPktSource` | a deque and counters per track | `dequeueUnusedPacket`, `queuePacket`, `dequeuePacket`, `flush` | demuxer |
| FFmpeg adapters `rt_media/FFMpeg` | a format or codec context | open, read, seek, close; create, send, receive, flush; translation of codecs, packets, frames, pictures | demuxer, decoder, encoder |
| Decoder `rt_node/ff_node/FFNodeDecoder` | packet and frame queue, two pools, thread, `mStarted` | commands, `runTask`, `push/pullBuffer` | pools, FFmpeg |
| Encoder and hardware codec nodes `FFNodeEncoder`, `hw_node`, `rt_media/Mpi` | ports of buffers, thread, mpp handles and buffer group | `init`, `release`, `dequeBuffer`, `queueBuffer`, start, stop, flush, the threads | object pools, FFmpeg, mpp |
| Object pool `rt_media/RTObjectPool` | idle objects, count of the borrowed | create, `borrowObj`, `returnObj`, delete | codec nodes |
| ALSA sink `rt_node/rt_sink/RTSinkAudioALSA` | frame deque, play status, thread | commands, `runTask`, `pushBuffer` | looper (end of playback), ALSA library |
| ALSA library `rt_media/ALSALib` | device, static volume record | open, write with retries, close; volume and mute | sound card |
| Window sink `rt_media/media-osal/android` | buffers dequeued, connection | `initRender`, allocating, rendering, blanking, closing | Android's window |
| Task pool `rt_task/rt_taskpool` | tasks, counters, workers | `push`, `pause`, `resume`, `wait` | used by its tests only |
| Containers `rt_base/rt_dequeue`, `rt_linked_list`, `rt_array_list`, `rt_kernel_list.h` | links and arrays | insert, remove, find, splice | everything |
| Hash table, metadata, persistent objects, memory service `rt_base` | buckets, typed values, the record of the live blocks | insert, set, find, remove, clear; register; malloc, realloc, free | everything |
| Allocators `rt_media/RTAllocator` | handle, descriptor, mapping per buffer; the store | `newBuffer`, `freeBuffer`, fetch | kernel (ION, DRM), heap |
| Media data `rt_media/RTMediaData` | the metadata of a buffer | put and get packets and frames | adapters, nodes |
| Filters, muxers, video sinks, GL, IPTV, strings and logs, Windows and Android ports, events | | | listed in `PROJECT.json` with the reason why they are not modelled |

What makes each part correct, and what could break it:

* **Looper.** Messages are handled in order, once, and one at a time; `send()`
  returns, after the handler; no wake-up is lost. At risk from posts, flushes and stops between the loop's two lock
  regions, from fields read without the lock, and from the handler calling back
  into its own looper.
* **Pool.** A buffer has one holder; its payload (an FFmpeg packet) lives
  while the holder needs it and is freed before the next one; a thread waiting
  for a buffer wakes up; closing the pool neither leaks nor frees twice. At
  risk because counts and observers are changed without the pool's lock.
* **Player.** Commands, seeks and late events of the sink's thread meet in one
  queue and one state: seeks must not overlap, get lost or turn a stopped
  player on, no application may wait for a command that was flushed, and nodes
  must outlive the threads that use them.
* **C interface.** The control, writing and reading threads take two locks over
  two players: a call returns whatever the others do, data that was written is
  not thrown away because the next write resets a player that is complete, and
  an end is told as the end of what has played.
* **Demuxer.** No packet is repeated, out of order or kept over a seek although
  the reading thread holds one in its hands while others flush, and none is lost
  but those that find a deque full of short packets; a cache passes its limits of
  size and duration by less than the packet it got last; a seek is served; the
  stream is not closed under its reader; the end of the stream is reported even
  when a pause clears the flag.
* **Decoder.** Frames leave in the order of their packets although a codec
  delays, multiplies or refuses and the loop keeps an input and an output over
  its turns; what survives a flush is bounded; `stop()` wakes and joins a thread
  that may wait in either pool, and then every buffer is back.
* **Codec nodes.** A port serves as many buffers as it has, whatever was refused
  before; frames are encoded in order, none skipped; what was opened is closed.
* **Bus and tracks.** What was built is freed once, also when a source fails and
  is tried again (but for the metadata of an application whose decoder could not
  be initialised, which the code frees twice); a command reaches every node, before what the node feeds; the
  decoder is made for the track whose packets it gets.
* **ALSA sink and volume.** Frames are heard whole and in order and go back once;
  the end is told once although two sources report it; `stop()` returns with a
  failing card; mute and volume restore each other.
* **Window sink.** After a blank that succeeded no video frame is shown, whichever
  of the calls fails; and the sink keeps no buffer, but one with a frame that the
  window refused: `renderHWFrame()` and `renderSWFrame()` pass over the error.
* **Task pool.** `wait()` frees the pool only after every accepted task ran,
  although workers leave on counters they read without the lock.
* **Libraries.** The lists answer as sequences, whatever index they are given and
  also when memory runs out (but for an insertion before the last entry of the
  linked list, see `Library_linked.cfg` below); tables and record agree with the
  heap, up to the allocation of a table's node that fails, after which the code
  writes through NULL, and but for a block whose `realloc()` failed, which the
  record loses; allocators give back what a buffer holds and nothing else, and what
  is converted arrives as what it was.

## Modules

| Module | Models |
| --- | --- |
| `MsgLooper` | the looper, its thread, its callers and the handler's calls |
| `Mailbox` | what a looper promises; `MsgLooper` implements it |
| `MediaBufferPool` | pool, buffers, the threads that hold them and the owner |
| `Lending` | what a pool promises; `MediaBufferPool` implements it |
| `NodePlayer` | applications, the player on its looper, deliver and sink thread |
| `RockitPlayer` | the C interface, its threads, and two players as it sees them |
| `Demuxer` | demuxer node, its thread, the packet caches, and the player and deliver thread that use it |
| `Tracks` | opening a file, choosing tracks, the decoder's parameters, the packets' way to it |
| `Decoder` | decoder node, its thread, pools, queues, and a codec by its delay |
| `CodecPorts` | the encoder node and the two mpp nodes over object pools |
| `NodeBus` | nodes, chains, table and metadata over several sources |
| `AudioSink`, `AudioVolume` | the ALSA sink with its card; the volume and mute |
| `WindowSink` | the window sink, its window and the compositor |
| `TaskPool` | pushers, workers and the owner that waits |
| `KernelList`, `Lists` | rings and hlists; deque, linked list and array list |
| `Memory` | the heap, its record, hash table, metadata, persistent objects |
| `Allocators` | malloc, ION and DRM buffers, and the store |
| `Conversions` | codec names, the fields of packets and frames, pictures to pixels |
| `MCMsgLooper`, `MCMediaBufferPool`, `MCNodePlayer`, `MCDemuxer`, `MCDecoder` | small instances for TLC |
| `MCNodes`, `MCOutput`, `MCLibrary` | the same for parts that share nothing (`CodecPorts`, `NodeBus`, `Tracks`; `AudioSink`, `AudioVolume`, `WindowSink`, `TaskPool`; the libraries): one run has a behaviour for each, told apart by `part` |
| `MsgLooperProofs`, `NodePlayerProofs`, `DecoderProofs`, `NodesProofs`, `OutputProofs` | theorems about the modules of these names |
| `InterfaceProofs` | theorems about the C interface, the task pool and the demuxer |
| `ContainerProofs` | theorems about the three containers and the memory |
| `LibraryProofs` | theorems about the other libraries and the buffer pool |

**How the state corresponds.** Each variable's comment names the field it
stands for. A region the code runs under a lock without waiting is one action.
What a thread reads or writes outside a lock is an action of its own where the
order against another thread decides something: `Born` and `SetLoop` (a new
thread tests and stores its state, in every module with a thread) are apart,
`Top` (the looper reads the thread state) and `WaitIfEmpty` (it tests the queue)
are apart, `DoneSignal` and
`DoneSetErr` are apart because `mErr` is written after the signal, `onSeek()`
is three stores, `release()` of a buffer is one action per access, a worker of
the task pool reads `busy_task_num` in one step and writes it in another. These
unlocked accesses are taken together, and what lies between them is not checked:
in `AudioSink` the tests of the thread's state and of the play status at the head
of a turn with the pull that follows, the stores of `mPlayStatus` and of the
thread's state in `onStart()`, `onStop()` and `release()`, and the end of a flush
with its store of `mCurPosition`; in `Decoder` the tests of the thread's state and
of `mStarted` at the head of a turn, and `mStarted = RT_FALSE` with the stops of the
two pools; in `Demuxer` the node's state with `mEosFlag` in `onStart()`; in
`NodePlayer` what a handler does between two waits or accesses to the deliver
thread's fields. The
program counters (`pc`, `lpc`, `tpc`, `dpc`, `hpc`, `wpc`, `ppc`, `todo`, `call`)
say where each thread is. In the modules of one thread (`Lists`, `KernelList`,
`Memory`, `Allocators`, `AudioVolume`, `NodeBus`) an action is a whole call,
with every outcome its inner calls may have. Ghost variables (`got`, `result`,
`flushed`, `filled`, `played`, `dropped`, `taken`, `missed`, `aimed`, `torn`, `ended`,
`shown`, `stale`, `heard`, `returned`, `refused`, `twice`, `failed`, `ran`, `lost`, `told`) only record what properties
speak of, and the `...Is` variables of the lists what a caller believes them to
hold.

**Composition.** `NodePlayer` uses the looper as the mailbox that `MsgLooper` is
proved to implement, with one sender at a time (`mCmdLock`), which is what
`SendWaitsForHandler` needs. `NodePlayer` proves the order of commands (prepare
before start, stop before reset, one seek at a time) that `Demuxer`, `Decoder` and
`AudioSink` take as the behaviour of their player: the applications send one
command at a time, so that at most one is handled between a seek and its
`RT_MEDIA_SEEK_COMPLETE`. `Decoder` uses its two pools as the lender that
`MediaBufferPool` is proved to implement. `RockitPlayer` stands over two players that
answer one command at a time. `Tracks` is the part of the demuxer that `Demuxer`
leaves out, with its thread's cycle as one step.

**External code.** FFmpeg is a position in a stream of packets that a read
advances, a seek sets, and reads that may fail (`Demuxer`, `Tracks`), and a codec
that keeps `delay` packets, gives one or two frames for a packet, and may
refuse (`Decoder`, `CodecPorts`). mpp keeps up to `Depth` inputs and announces a
change of format. libasound takes a piece of a frame or fails; the kernel
hands out the lowest free number or fails; Android's window has buffers, and a
compositor shows what is queued. Threads and conditions are modelled after
`rt_base/linux`.

**Undefined behaviour.** Races on plain fields are interleavings of single
stores and loads. `flush_message()` on a queue of several messages follows
pointers that were never set; `MsgLooper` stops there (`wild`) and
`OneSeekAtATime` shows that the player never gets there. `acquireBuffer()` on a
stopped pool returns no value; no caller uses it, and the model returns any.
Cells that were never written hold `Junk` in `Lists`.

## Runs

| Run | States | Shows |
| --- | --- | --- |
| `looper_pass` | 822,030 | no lost wake-up, synchronous send that returns, and the refinement of `Mailbox` (order, nothing lost or handled twice) |
| `looper_stop_hangs` | | violation: `stop()` may join a looper thread that has just missed the broadcast |
| `pool_pass` | 212,643 | one holder, payload lives and is freed, no use after free, no leak, no lost wake-up, `acquireBuffer` returns, `stop()` ends its wait, and the refinement of `Lending` |
| `player_pass` | 162,238 | seeks do not overlap and end, no command is lost, a stopped or reset player stays quiet, commands return |
| `player_stale_seek` | | violation: `stop()` flushes a seek and leaves the flag at `RT_SEEK_DOING`, later seeks are never made |
| `demuxer_pass` | 347,931 | caches, seeks, commands and the end against failing reads and packets of any length |
| `decoder_pass` | 290,284 | order, bounded rest of a flush, buffers back, end shown, stop returns, over five kinds of stream |
| `nodes_pass` | 537,107 | ports, bus and tracks |
| `tracks_two_streams` | | violation: of a file with two audio streams the packets of both reach the decoder |
| `library_pass` | 135,611 | lists, memory, allocators, conversions |
| `output_pass` | 216,812 | ALSA sink, volume, window sink, task pool |
| `interface_pass` | 234,555 | the kind of an end, written data is played, calls return |

The three violations are findings in `PROJECT.json`, each with the line that says
otherwise.

**Beyond the runs.** More configurations record what was met on the way. These have
a counterexample:

| Configuration (module) | Property | What TLC finds |
| --- | --- | --- |
| `MsgLooper_stale.cfg` (`MCMsgLooper`) | `SendReturnsAnswer` | `send()` may return `RT_OK` for a message whose handler answered an error: `mErr` is written after the signal |
| `NodePlayer_found.cfg` (`MCNodePlayer`, with `-continue`) | `StartedDelivers`, `SeekSkippedOnlyNear` | a seek between prepare and start leaves a STARTED player without deliver thread; after a seek the position is -1, and a saved seek to the start is taken for a near one |
| `Demuxer_video.cfg` (`MCDemuxer`) | `RoomWhilePlaying` | a full cache of a track nobody pulls stops the reading of all |
| `Decoder_pause.cfg` (`MCDecoder`) | `OnlySeekDrops` | a pause also makes the loop drop its input, not only a seek |
| `NodeBus_found.cfg` (`NodeBus`) | `NodesFoundAreLive` | after `releaseNodes()` the table still finds the deleted nodes |
| `AudioSink_idle.cfg` (`AudioSink`) | `StartedPlays` | a sink that is stopped before it was ever started keeps `THREAD_EXIT`: the thread of a later start leaves at once, and nothing is played |
| `Library_linked.cfg` (`MCLibrary`) | `LinkedKept` | `linked_list_insert_at()` before the last entry makes the new one the tail (`rt_linked_list.cpp:82`): the list answers with wrong elements from then on |
| `Memory_freed.cfg` (`Memory`) | `FreedOnce` | `RtMetaData::remove()` frees a block that the table frees again |

And these pass: `CodecPorts_live.cfg` (`CodecPorts`, 466,661 states: an input of
the encoder's port comes back), `Output_live.cfg` (`MCOutput`, 63,798 states:
`rt_taskpool_wait()` and the window sink's drawing calls return).

**Bounds and why they are enough.**

* *Looper*: three messages are enough for one in the handler, one queued behind
  it and one posted from the handler while a stop is under way; the kinds of
  messages matter only to `flush_message()`.
* *Pool*: two buffers of different sizes let a request pass over a free buffer;
  one acquirer against two consumers has releases on both sides of the scan
  while the pool starts, stops and closes. What depends on several acquirers is
  proved.
* *Player*: five commands reach every state, with one left to meet what the
  fifth started. The targets and frames are one position at the start and one
  farther from it than the margin.
* *Demuxer*: four packets with one of another track between the audio (a cover
  picture); durations of nothing, one and two against a limit of three, sizes of one
  to three against four, and deques of two, so that a cache passes its limit of
  duration and that of size by part of a packet, short packets fill a deque, and
  a packet or the end is dropped; one tolerated error instead of five: a read fails
  once and too often, the end is read before and after a seek, and both targets
  lie before and behind what is cached. Three commands after the creation are
  prepare, start and a seek, pause or stop, or prepare and two seeks; a pause of a
  player that is started again is not reached, nor a seek after it.
* *Decoder*: three packets through pools of two make the thread wait in either
  pool; two commands meet in all its places; the five streams are a plain one
  that ends twice, one that delays, one with two frames in a packet, and one
  that bypasses the codec.
* *Nodes*: a pool has at least two objects, so ports of one and two are below and
  at that; two starts, one refusal, two frames; the bit rates and a word of
  4096 in place of 2^32 put the multiplications on both sides of the overflow.
  Two sources on the bus show what the first leaves to the second; three streams
  of all types are the least in which an index of all streams and one per type
  differ in both directions.
* *Library*: three cells make a list with a middle; the array's capacity begins at
  the least, 2, and grows from there, and is that of a new list, 3, once the array
  is lost; the record keeps two of four blocks, so that it overflows, and memory
  runs out at the second key; of three keys 1 and 3 share a bucket; sizes to
  allocate lie on both sides of the alignment and the page; samples are the ends,
  the middle and one between; three puts write over either kind with either.
* *Output*: three frames of two pieces, four commands, one error of the card;
  volumes below, inside and above the range; a window of three buffers with one
  that it keeps; two workers, two pushers with two tasks each, a queue of one.
* *Interface*: two calls of the control thread against three writes, one piece
  of a file.

**Deadlock.** Where `CHECK_DEADLOCK FALSE` appears the system may really stop:
applications have used up their commands, need not call anything more, and all
threads rest; or the looper has been stopped, the sink released, the task pool
freed. The pool's run checks deadlock.

**Fairness.** Liveness is checked under weak fairness of the threads that the
operating system runs once they can go on: the looper's thread, a caller
inside a call, the deliver thread, the demuxer's, the decoder's and the sink's
thread, the workers and a thread inside `acquireBuffer` or `release`. Nobody has
to call anything. Strong fairness appears twice: `PushPacket` of `Decoder` says that a
demuxer which is asked again and again has a packet some time, and the locks of
`RockitPlayer` that a thread which waits for a mutex gets it some time although
others take it in between. `AcquireReturns` has the assumption in its statement (`Generous`: who gets
buffers gives them back), and the decoder's sink gives back its frames.
The loops that poll (2 ms, 5 ms) are steps that are disabled while nothing
would happen, so that polling counts as waiting. `CommandReturns` of the player
and of the demuxer and `StopReturns` of the decoder and of the sink leave out the
behaviours in which a new thread writes `THREAD_LOOP` over the `THREAD_EXIT` of an
early interruption (`rt_os_thread.cpp:58`, `Born` and `SetLoop`; in `AudioSink`
`thread_looping` and `SetLoop`): the thread runs on, and the join never returns.
The models have these behaviours, only the statements except them. `EndReached`
leaves out an end whose packet found a full deque, and with `SeekServed` the
behaviours in which `onSeek()` and the
thread's own seek wrote the same fields at once (`torn`): there the node stays
in `NODE_STATE_SEEKING` or uses the old target. `EndShown` speaks of codecs
without delay: with one, an end brings one of the frames that are kept, and the
rest waits for packets that do not come.

## What is proved

For every value of the constants that the modules' assumptions allow (threads
are distinct, bounds are natural numbers, a stream is a finite sequence), and
with nothing taken on trust:

* `MsgLooperProofs`: types, `FifoDelivery`, `EachMessageOnce`, `NoSleepOnWork`,
  `SendWaitsForHandler` and the refinement of `Mailbox`.
  The invariant (`OrderInv`) says that the queue holds the latest messages
  without a gap: a push adds the next number at the tail, a pop takes the
  smallest, a flush removes all, so that everything older is handled, in the
  handler or flushed. `SendWaitsForHandler` assumes one sender (`OneSender`)
  without spurious wake-ups, since `send()` waits once and in no loop.
* `LibraryProofs`, the buffers: types, `LentOnce`, `PayloadLives`, `PayloadFreed`,
  `NotUsedAfterFree` (together `BuffersKept`), `NoLeak`, `NoLostWakeup` (for one
  acquirer, `OneAcquirer`) and the refinement of `Lending`. The invariant ties the
  count to the holders, each step of a release to what it still owns, and the
  scan to the lock; the wake-up argument is that a buffer which was returned
  after the scan had passed it still owes a signal that needs the scan's lock.
* `NodePlayerProofs`: types, `OneSeekAtATime` and `CommandNotFlushed` (`QueueSound`),
  `NodesOutliveDelivery` and `IdleIsQuiet` (`ResetIsQuiet`), `StoppedStaysStopped`.
  None of them is inductive: the invariant says where each kind of message may
  be on its way. A seek exists only in an active player whose flag is DOING
  (`SeekInv`), the end of the stream only once the playback has begun (`EndInv`), a
  command only while the one application that holds `mCmdLock` waits
  (`CommandInv`). So a flush, which runs in the handler of a command, can drop no
  other command, and by the time a player is STOPPED the sink's thread is joined
  and its messages gone.
* `InterfaceProofs`, the demuxer: types, `OpenWhileRead`, `SeekServed` and `CacheKept`
  (`CacheInOrder`, `CacheBounded`), for packets of any size and duration, zero
  included, and any limits. `ControlInv` says which commands are under way in which phase, `SeekInv`
  where an untorn seek is. For the packets, `RoomInv` says that the thread has
  checked for room when it has a packet in hand, that only it fills the caches,
  and that the packets standing for the end are queued where nothing follows;
  `CacheInv` says that what is cached lies between the last packet pulled or flushed
  (`taken`) and the one about to be queued (`Front`), and that what is missing there
  found a full deque (`missed`). A cache passes its limits by less than one packet
  because the room that the thread saw without the lock (`BoundInv`) is still there
  when it queues: the other threads only take packets, and a sum over a queue
  shrinks with its head (`TotalTail`; the sum is a recursive function, and what it is
  of a longer queue follows from a least number at which it would differ). Where a
  full deque lasts as long as the limit of duration whatever it holds (`LongEnough`: in
  the code 600 packets of at least 17 ms against 10 s), `LongPacketsKept` shows that
  nothing is ever refused; shorter packets, or packets of no duration, are dropped
  without a word (`RTPktSourceLocal.cpp:216`).
* `DecoderProofs`: `FramesInOrder`, `BuffersBack`, `StaleBounded`, for any stream,
  pools, commands and delay. The packets on their way stand at six places in a
  row, from the frame pulled last to the packets queued; what an action moves
  goes over places that are empty by then, so that the places stay apart
  (`Apart`) and each queue stays sorted (`Sorted`). `HandInv` says what the thread may
  have in hand where it stands, `CountInv` counts buffers. For the flush,
  `KeepInv` bounds what the codec keeps by its delay, and `FlushInv` and `StaleInv`
  follow the set `Old` of what was pushed before and is still to come: it
  shrinks by what comes out, and a flush leaves no more of it than the hands and
  the codec hold.
* `OutputProofs`, the ALSA sink: `FramesKept`, `CompleteOnce`, for any number of frames
  and pieces, whatever the card refuses. A frame is at one place (`PlaceInv`), the
  places follow each other in the frames' order (`OrderInv`), so that what was heard
  lies before what comes (`HeardInv`); only a stop or a release, which join it,
  interrupt a thread that has a frame (`ThreadInv`); a position is recent only if
  a frame was handled since the last end (`PositionInv`).
* `OutputProofs`, the volume: `MuteRestores`, for any range of the control and
  whatever callers pass (`VolumeAssumption`: integers). The record holds the
  volume accepted last, in 0..100, so that clipping it once more changes nothing.
* `OutputProofs`, the window sink: `BlankReplaces`, for windows of any number of
  buffers, whatever the window refuses; a buffer that was refused with a frame is
  excepted, since nobody cancels it (`RTAWindowSink.cpp:436`, `:456`). While it blanks, either the window has begun to show blank and nothing
  older waits, or each buffer drawn still waits (`BlankInv`), and then as many wait
  as were drawn; it draws one more than the window has, which leaves the first case.
* `InterfaceProofs`, the C interface: `EndKind`, `WrittenIsPlayed`, for any number of
  calls, writes and pieces (`FacadeAssumption`: the two threads and the reader are told
  from nobody). The callback's unlocked read is harmless because the context names
  the kind of the url that plays as long as that player is not idle; the lock's
  holder changes the name only between the reset of the old url and the new
  source. Nothing written is dropped because a writer finds a complete player only
  after the end that it wrote, which was the last in the sink.
* `InterfaceProofs`, the task pool: `WaitRunsAll`, for workers 1..n, any pushers with
  the owner among them and any quota (`PoolConstants`). An accepted task is at one
  place (`PlaceInv`); once the pool waits nobody pushes any more (`PushInv`, `EndInv`),
  so that a count found 0 without the lock stays 0.
* `NodesProofs`, the node bus: `FreedOnce`, `CommandReachesAll`, for any number of
  sources, with or without a video sink (`NodesAssumption`: no node is the null pointer).
  `BusInv` says of each object which one owner will free it: a root, the link of a
  root, the set that a node owns, or the table of metadata; these never share an
  object, everything live has one, and an idle player has none. `FreedOnce` excepts
  one object, the metadata that an application registered for a decoder whose
  `init()` failed: the code frees it with the decoder (`FFNodeDecoder.cpp:146`, or
  `release()` of the node) and again with the table (`twice`, `Excused`). The chains are a
  root and at most one node behind it, on the root's line, which is what a command
  walks over.
* `NodesProofs`, the codec nodes: `CodecsKept`, for pools, delays and bit rates of any
  size and whatever the codec refuses (`PortsAssumption`: sizes and rates are natural
  numbers, an INT32 has an even number of values, no buffer is the null pointer). A
  buffer that was made is at one place at most, in a queue, with the client, in the
  thread's hand or with mpp (`HandsInv`, from `Apart`). `CountInv` bounds what a pool
  counts and holds together by its limit, and where the node makes buffers on demand
  this sum is the number made. A queue without repetition is no longer than the
  buffers that exist (`QueueFits`), so that there is always room for one that comes
  back, even where a refused call was counted. `FrameInv` says that until the first
  stop the frames taken, waiting, inside the codec and received follow each other.
* `NodesProofs`, the tracks: `TracksKept`, for files of any streams, any number of opens and
  reads, and any integer start times and units (`TracksAssumption`; also that no
  decoder and no packet is the null pointer). `IndexInv` says that the index of a type
  is that of a stream of the type, or -1 if there is none, so that the search finds
  just this stream; `FormatInv`, that only the format which the demuxer holds is open.
  For the packets, `FedInOrder` and `CachedNext` say that what was fed, then what is
  cached, are all that was read of the type, in order, until the thread is joined,
  and that only the end may be last.

* `ContainerProofs`, the deque, the linked list and the array list, for any data,
  cells and initial capacity (`ListsAssumption`: NULL is no cell). `DequeInv` and `LinkedInv`
  name a sequence of cells without repetition: head, tail and size are those of
  the sequence, and the fields of each cell lead to its neighbours. Each call
  changes this sequence as it changes the data, by one element put in (`PutIn`) or
  cut out (`CutOut`), so that no reachability along pointers has to be stated. The
  deque's tail is free while the deque is empty, as `deque_pop()` leaves it. `ArrayInv`
  says that one entry is always to spare, before an insertion moves the others up,
  unless the array is lost: a `realloc()` that fails leaves an empty list without
  one. An index may lie outside the list: an insertion or a store is refused there,
  and `array_list_remove_at()` takes off the last entry. Where the code writes through
  NULL (an insertion into a lost array, or before the first entry of a linked list,
  or an entry that could not be allocated) nothing follows (`fault`), and `LinkedInv`
  ends with an insertion before the last entry of the linked list (`Library_linked.cfg`).
* `ContainerProofs`, the memory: `MemoryKept`, for any blocks, objects, keys, buckets and size
  of the record (`MemoryAssumption`: blocks are numbered from 1, the table has a bucket).
  `HeapGood` says that the record's nodes name live blocks, once, that its count is
  no less than they are, and that total_size is their sum; the sum is a recursive
  function, and how it changes with one node follows from a least slot at which it
  would not (likewise for a table that is cleared, block by block). The
  blocks of `HeapOf` are a parameter, so that the steps in the middle of a call, when
  a block is freed and its owner not yet told, have lemmas of their own. `MetaInv`
  adds that the table's entries are in their buckets and one per key (`TableOf`,
  `Store`), that node, typed value and further block of all entries differ and are
  all that lives (`Places`), and that each value is the one known; `PersistInv` says the
  same of objects by their names (`Registered`, `NamedOnce`, `Holds`). Any allocation
  may fail. Where the code looks, the call is refused; a `realloc()` that fails
  loses its block from the record (`refused`, and the property lets the record name
  NULL); a table's node that cannot be made ends the behaviour, with the heap full
  and the entries as they were (`SetDenied`, `RegisterDenied`, `crashed`).
* `LibraryProofs`, the kernel lists: `K!ListsKept`, and with the containers `SequencesKept`,
  for any heads and nodes (`LinksAssumption`: a head is no node, NULL neither).
  `RingInv` (`Good`) says that from each head the next and prev fields run through the
  ring's sequence and back, that no entry is on two rings or twice on one (`Apart`),
  and that an entry on none either was left by `list_del_init()`, with both fields at
  itself, or does not lead to itself. `HashInv` is the same for hlists, where pprev
  names the cell before. The moves, replacements, splices and cuts are composed
  from lemmas about one insertion and one removal.
* `LibraryProofs`, the allocators: `HeldByBuffers`, for any capacities, alignment and page
  (`AllocAssumption`: handles, descriptors and mappings are natural numbers, none of them the
  value for nothing or MAP_FAILED). With the types of what each allocator makes (`AllocTypeOK`)
  the property is inductive: a number that the kernel gives is in no use, so that
  a new buffer shares none with another or with what was lost.
* `LibraryProofs`, the conversions: `ConversionsKept`, for pictures of any even size and any
  bytes as samples (`SamplesAssumption`). `CarryInv` says that the buffer holds what was
  put last and nothing else; `PaintInv` where the three pointers stand for each line and
  column, which makes the pixels' places inductive, also over the rewinding at the
  end of a line; that the colours are near is arithmetic over the fixed factors.

All invariants that the passing runs check are among these, and were checked by
TLC on small instances before they were proved. A run about one part of
`MCLibrary` leaves the others in an initial state, so the invariants of all parts
hold throughout.

Only model-checked are the liveness properties: TLAPS cannot reason about
fairness with ENABLED.

## Assumptions of the models

* `AudioSink`: a thread that was created runs before the next START of the player;
  without that one sink may get two threads (`RTSinkAudioALSA.cpp:241`).
* `RockitPlayer`: the writer waits for the event of the end it wrote and leaves no gap
  of two seconds; a push finds its sink in one step; the player is released when no
  other thread uses it; the callback does not call the interface.
* `MediaBufferPool`: the owner closes the pool while no thread is inside one of its
  calls, which the players ensure by joining their threads.
* `Conversions`: pictures have even sizes, as decoders give them.
* `Memory` and `AudioVolume`: one call at a time, as there is no lock.

## What is not modelled

Delayed posts (no caller passes a delay), restarting a looper, `wakeup()`; `release()`
and destructors of the player (`release()` frees the nodes without joining the
deliver thread unless `reset()` was called before), `wait()`, getters and the bodies of
callbacks; a seek that FFmpeg refuses; teardown of a pool while another thread
is inside one of its calls; the decoder's `init()` failing in the middle in
`Decoder` (it does in `NodeBus`); RCU
variants of the kernel lists; boundary checks and dumps of the memory service;
parameters of single codecs of mpp; conversion of samples (swresample is
external). Of whole components: filters and muxers are empty; the video sinks
and GL are prototypes that the player never feeds; the IPTV player forwards to the
node player; the Windows and Android ports have the interfaces of the linux one.
`PROJECT.json` lists every component with its status, and under `hazards` what
these gaps leave open.

## Plan

1. Done: the playback path (`MsgLooper`, `MediaBufferPool`, `NodePlayer`, `Demuxer`,
   `Decoder`, `AudioSink`) with its abstract specifications, the C interface, the
   bus, tracks and codec nodes, the task pool, the window sink and the libraries,
   each with its run; the safety properties that these runs check as theorems.
2. `Pipeline`: demuxer, decoder, sink and deliver thread composed by their abstract
   promises (queue of positions, lending, end). Properties: frames reach the sink
   in the order of the stream, none from before a seek after it but the bounded
   rest, and the end reaches the player.
3. Two threads of one ALSA sink, instead of the assumption; the player's `release()`
   against a deliver thread that was not joined.
4. Proofs for the looper with several senders.
