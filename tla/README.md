# Verification of rtmp-pusher in TLA+

rtmp-pusher (`src/code-test`) decodes an MP3 file, re-encodes its PCM to AAC, and
sends both streams to TCP clients, each client getting one of them. This project
models the program that does it, its threads, locks, queues, descriptors and
clients, checks it with TLC and proves its main invariants with TLAPS.

The repository has three parts: the pusher (`code-test`), a copy of it for an older
compiler with Boost (`code-test-boost`), and FFmpeg example programs (`example`).
The first is modelled as a whole, threads and all; of the third, each program is a module. File names below are relative to `src/code-test/src` unless they start with `src/` or are a program of
`src/example`.

## 1. Inventory

| Component | State | Operations | What makes it correct |
|---|---|---|---|
| `AudioFramePool` (`core/audio_frame_pool.c`) | `framePoolMap_`, `round_`, `mutex_` | `RegisterFramesPool`, `UnregisterFramesPool`, `PutFrame`, `TakeFrame` | keeps the newest frames, in order, none twice; never blocks the producer |
| `BoundedQueue` (`base/bounded_queue.h`) | `queue_`, `capacity_`, `block_`, mutex, two conditions | `put(x)`, `put(round, x)`, `take` | bounded; drops the oldest or refuses; blocked threads wake up |
| `Terminal` (`core/terminal.cc`) | id, type, socket, a scratch buffer | `Send`, setters | writes to its own client, survives its leaving |
| `TerminalStreamObserver` (`core/terminal_stream_observer.cc`) | `terminalMap_`, `mutex_`, `frameBuf_`, `m_exiting`, a thread | `RegisterTerminal`, `UnregisterTerminal`, `NotifyAll`, `Loop` | every terminal of a type gets every frame of it, in order; slow clients; shutdown |
| `TerminalServerThread` (`core/terminal_server_thread.cc`) | `exiting_`, `reads`, `fd_max`, `buf_`, a thread | `Select`: accept, register, read, take down | registry = open connections; a closed client is taken down; shutdown |
| `mp3DecodeEncode` (`demo/mp3_decode_encode_test.cc`) | PCM and frame buffers, `aacPcmIndex`, the objects above | start-up, frame loop, destruction | PCM neither lost, repeated nor invented; buffers not overrun; ends |
| `Thread`, `MutexLock`, `Condition` (`base/`) | `m_started`, `m_holder` | start, join, lock, unlock, wait, notify | mutual exclusion, bookkeeping of the holder |
| `Buffer`, `SharedBuffer` (`base/`) | `buf_`, `size_`, `capacity_` | `Add`, `Clone`, `Clear` | what is added fits |
| codecs (`audio_code/`) | library handles | `Init`, `Decode`, `Encode` | results reported as they are |
| `echo_client` (`src/code-test/test`) | a counter | connect, read and answer, close | the environment of the server |
| players (`3-1-palyer`, `3-3-decode_video`) | packet queue, decode buffer, `audioFirstPts`, device, window | main reads, shows, queues, paces; SDL's thread decodes and mixes | what was queued is played once, in order; both threads end |
| demuxer, remuxer, muxer (`3-2`, `3-9`, `3-7-h264_aac_muxer`) | stream numbers, timestamps | copy packets between files | each packet of the chosen streams once, in order, interleaved by time; the exit code tells |
| decoders (`3-3-decode_h264`, `3-4-decode_aac`, `3-4-demuxing_decoding`) | `gotFrame`, scalers, the rest of a packet | decode and save | every frame given out is saved once per output |
| encoders (`3-5`, `3-6`) | `frameCount`, an uninitialised packet, the ADTS header | encode, drain | every frame read is in the file; lengths read back |
| watermark, resampling, scaling (`3-7-watermark`, `3-12`, `3-10`) | graph, backlog, output array | filter, resample, scale | nothing piles up; buffers are large enough |

**How they interact.** The *main thread* builds the pool (two circular queues of ten
frames), the observer and the server, starts the server's thread and then the
observer's, and puts frames into the pool in a loop. The *observer's thread* takes a
frame of each type from the pool and, holding the observer's `mutex_`, writes it to
each registered terminal of that type with a blocking `write()`; then it sleeps for
22 ms. The *server's thread* runs a `select()` loop: it accepts a client, gives it a
terminal (even descriptors get MP3, odd ones AAC), and registers it with the observer
under the same `mutex_`; when `read()` returns 0 it writes once more, forgets the
descriptor, closes it, unregisters the terminal, and writes again. At the end, main
destroys the server (flag, join) and then the observer (flag, join).

In the *players*, main reads packets, shows video frames at once, puts audio packets into a
mutex-protected list and sleeps while they are too far ahead of the clock; SDL calls the audio
callback on a thread of its own, which takes packets from the list, waiting on a condition when
it is empty, decodes them and mixes the sound into SDL's buffer. The other examples are
sequential; what interacts in them is main with codecs, graphs and resamplers that hold back
what they were given, and with calls any of which may fail.

**What is hard.** A terminal keeps a descriptor, and descriptors are reused; the close
path has five steps, between any two of which the observer may write; the distribution
is a loop of blocking calls under a lock that registration, unregistration and thereby
shutdown need; frames are dropped when the consumer lags; a write to a client that is
gone raises SIGPIPE; `accept()` can fail; a flag is read before it is set. A blocking queue gives
one notification per element, some inside and some outside the lock. An audio callback cuts
frames at its own length, on a thread that nobody stops. Codecs give out frames late, several at a
time, or never. The list with
its lines is in `PROJECT.json` under `hazards`.

## 2. Modules

```
FramePool   Sockets                       MCUnits: FramePool, PcmReframer,
      \      /                              BlockingQueue, FrameScanner
   TerminalObserver      Broadcast
         |                   :            MCExamples:
   TerminalServer            :              PacketQueue - AudioOut - Player - DecodeVideo
         |                   :              MediaTool - Demuxer, Remuxer, Muxer, Decoders,
       Pusher ...............:                Encoders, DemuxDecode, Watermark, Synthetic
         |     ImplementsBroadcast
      MCPusher
```

* **FramePool** is `AudioFramePool` with the queues it builds. Each method holds the
  pool's mutex for its whole body and never waits inside, so it is one action. A frame
  is the number of the `PutFrame` call that offered it. `Round` is `round_`: the
  refusing mode (0) and the circular mode are both there. `offered` and `past` are
  history variables.
* **Sockets** is the kernel's side of the sockets: what `accept`, `select`, `read`,
  `write` and `close` do as far as the program can tell, and the clients of
  `echo_client.c`. A connection goes from `open` to `fin` (client closed), `finw` (the
  server wrote afterwards, so a RST is on its way), `broken` (the next write raises
  SIGPIPE), or through `reset` when the client closed with data unread. `SendWindow`
  frames fit between a `write()` and the client's `read()`; then `write()` waits.
  `stream` and `killed` are history. It is external code, modelled from its use.
* **TerminalObserver** is the registry and the observer's thread. `mutex_` is held from
  `ObsLock` to `ObsUnlock` (`obsPc = "send"`); `RegisterTerminal` and
  `UnregisterTerminal` need it free. `todo` is what remains of `NotifyAll`'s walk over the
  `std::map`, taken in the order of the keys, one blocking `write()` per step. Because a
  terminal is registered under its own descriptor, the registry is a set of descriptors.
* **TerminalServer** is `Select()`, one action for each system call or locked call:
  `SrvFarewell`, `SrvClose`, `SrvUnregister`, `SrvLateWrite` are the lines 104 to 111.
  A failed `accept()` gives −1, as in the code: it becomes a terminal under the key −1,
  and `FD_SET(-1)`, which is undefined, either sets the bit of a descriptor that is
  watched anyway or makes the next `select()` fail.
  `InitialExiting` is what the uninitialised `exiting_` may hold.
* **Pusher** is the whole program: the main thread from construction to the two joins,
  with the early returns of the codecs' `Init`, composed with the two threads and the
  clients. SIGPIPE ends all threads (`killed`).
* **Broadcast** is the abstract specification: per audio type a lossy channel that keeps
  its newest frames, and members each of whom is handed every frame that leaves the
  channel, all of them in one step.
* **PcmReframer** is the PCM path of the frame loop. The unit is 512 bytes, the difference
  between 4608 and 4096, so an AAC frame is 8 units and an MP3 frame 9. Every unit of PCM
  carries its place in the decoded stream, and the two buffers are arrays of them.
  `Decode` includes the result 0 that comes without PCM (`MPG123_NEW_FORMAT`).
* **BlockingQueue** is `BoundedQueue` with any number of producers and consumers, in both
  modes, a call cut at every point where another thread can come between: the guard, the test
  of the predicate, `wait()`, the `push_back` or `erase`, the notification. `put()` notifies after its
  guard is gone, `take()` while it is there. `pmutex` is the pthread mutex, `holder` is
  `m_holder`: `wait()` moves the first behind the back of the second. `Overwriters` call `put(1, x)`.
  An element is the number of its `push_back`. Wake-ups without a notification are there, bounded
  by `MaxSpurious`.
* **FrameScanner** is the search for MP3 frames: the loop at the label `syncWordSearch` and the functions
  that read the third header byte. A file is junk, frames and a cut; of a frame the third
  byte and the value that its body repeats matter, so bodies can look like headers.
  `findFrameSamplingFrequency` is as in the code, where `(b & 0x0C) >> 6` is always 0;
  `MpegFrequency` is what the standard says, and only files are built from it.
* **PacketQueue** is the players' linked list, node by node; **AudioOut** is SDL's audio thread:
  `audio_callback`, `audio_decode_frame`, one action for every pass through their loops;
  **Player** is `main()` of `3-1-palyer` with its window; **DecodeVideo** is `main()` of
  `3-3-decode_video` over the same audio thread, of which that program has a copy. A unit of sound
  carries its packet and its place in it. The qualities of
  a packet are what the decoder makes of it: `good`, `short` (a frame of another length), `many` (several frames: the
  code hands the whole packet to the decoder again, converts all frames but the first to a wild pointer and counts
  their length, so what is left over in `audio_buf` (`Leftover`) follows the first frame, or the process crashes), `late`
  (the second attempt succeeds), `bad` (none ever does), `empty` (size 0), `odd` (no resampler),
  `broken` (the resampler fails).
* **MediaTool** is what the command line programs share: the place in `main()`, the exit code, the
  input, a codec that may hold back frames, and `av_interleaved_write_frame` (`Accepts`). The program's own variables are
  the fields of `own`. `Lists(s, S)`: the sequence `s` has the numbers of `S`, in order.
* **Demuxer**, **Remuxer**, **Muxer**, **Decoders** (two programs), **Encoders** (two), **DemuxDecode**,
  **Watermark**, **Synthetic** (two) are one program each unless noted. Every early return, `goto` and `break`
  of `main()` and of the functions it calls is there, those out of a packet that is half done among them. Each has a `...Works` and a `...Fails`: what the calls do when they succeed, or must fail,
  and what they do when they fail of their own accord. In **DemuxDecode** each of the two decoders holds frames of its own (`inside` is a
  function of the stream), a packet has parts, and `own.lost` counts those that main gives up when `decode_packet()` returns −1; a frame
  that the resampler refuses (`odd`) is written before that, one with a single plane (`mono`) crashes. In **Remuxer** `inside` is
  how many of the packets it has accepted the muxer still holds, per stream, and `own.trailer` what became of
  `av_write_trailer`. In the others `inside` is what the only codec holds. In **Encoders** the packets leave in coding order
  (`Coded`): of two frames the second goes first if the other becomes a B-frame, one at a time as
  `max_b_frames = 1` has it, never the first frame of all, and only with H.264.
* **MCUnits**, **MCExamples** and **MCPusher** give TLC its constants. The first two put several
  components under one run: a behaviour is that of one of them, which `unit` or `program` names.
  Each component has a specification of its own as well (`PoolSpec`, `BlockingQueueSpec`, `PlayerSpec`, `DemuxerSpec`, ...).
* The proofs are in **FramePool_proofs**, **Pusher_proofs** and **PusherStreams_proofs** (the program), **Units_proofs** (its parts),
  **Player_proofs** (both players), **Packets_proofs** (demuxer, remuxer, muxer, decoders, demuxing and decoding), **Tools_proofs**
  (encoders, watermark, resampling), over **SeqLemmas** (facts about sequences).

`PROJECT.json` maps each definition to its lines.

**Mutants.** Operators with a comment that starts with *Mutant:* are not part of any
specification. Each changes one definition of the code the way a plausible bug would and
shows that a property notices it.

## 3. Runs that pass

| Run | Bounds | Distinct states | What it shows |
|---|---|---|---|
| `units` | see section 5 | 117 738 | the pool, the reframer, the blocking queue and the scanner, each on its own |
| `examples` | see section 5 | 143 435 | the programs of `src/example` |
| `pusher_safety` | 3 connections, descriptors 8 and 9, one frame of MP3 and up to two of AAC | 1.8 million | the registry, the watched set, the descriptors and the streams stay consistent |
| `pusher_live` | 2 connections of the same codec | 390 000 | the program implements `Broadcast`; closed clients are taken down |
| `pusher_producer` | 1 client that never has to read, 2 turns of the loop | 114 000 | main is not held up by a blocked observer; shutdown ends unless such a client blocks it |

*Safety.* `TerminalsAreConnected`: a registered descriptor is the very connection that its
terminal was made for, except between `close` and `UnregisterTerminal`, when it is closed.
`WritesReachOwnPeer`: what `NotifyAll` is about to write goes to that connection or to a
closed descriptor, and the write after `close` meets nobody. `RegistrationSucceeds`: the
ignored result of `RegisterTerminal` is never 1. `OpenIsServed`: every open connection is
below `fd_max`, watched and registered, and nothing that is closed is watched (else
`select()` fails and the server ends). `StreamsAreOrdered`: one codec per connection, in
order, no repetition. These hold for one reason: only the server's thread accepts and
closes, so a number that it has closed is not handed out again before it has come back
from `UnregisterTerminal`. A second accepting thread, or an unlocked registry, breaks them
(the mutants show the latter).

*Refinement.* In `ImplementsBroadcast` a client is a member while its terminal is registered
and its descriptor is open; a frame counts as delivered to all members when `NotifyAll`
takes the lock, and a member whose turn has not come is owed it (`Owed`). The step of the
program is then: `ObsTake` is `Take`, `ObsLock` is `Deliver`, `SrvRegister` is `Join`,
`SrvClose` is `Leave`, `PutFrame` is `Publish`, everything else stutters.

*Liveness.* See section 5 for fairness. `ClosedIsTakenDown` does not assume that the frame
loop goes on or ends. `ProducerNeverBlocks` allows the client to stop reading for ever.
`ShutdownCompletes` says exactly when destruction may hang: only while the observer waits in
`write()` for a client that has stopped reading, holding the mutex that the server's thread may
want. Without that exception TLC refutes it.

*Parts of the pusher* (`units`). Of the pool, `HoldsNewest`, `InOrder` and `TakenInOrder`; of the reframer,
`CopiesFit`, `PcmIsConserved` and `EncodesPcmInOrder`. `QueueIsFifo`: whoever waits, wakes and overwrites
between a thread's test and its push or pop, the queue is the last elements put, in order, within its
capacity, and nothing is taken from an empty one. `HolderIsTruthful`: although `wait()` leaves `m_holder`
alone, no running thread is taken for the holder that is not, and the assertion of `~MutexLock()` holds.
`EverythingGetsThrough` (liveness): one notification per element is enough, before or after the unlock; a
notification only for the first element would strand a consumer. `FindsEveryFrame`: in a 44.1 kHz file
the decoder is given exactly the whole frames, whatever their bodies look like and wherever the file
ends; `FramesAreApart`: in any file, 48 kHz and broken ones included, no byte is given twice and none past the end.

*Players* (`examples`). `QueueIsList`: both ends, the links and the counter spell out the packets put
and not taken, through every time the list is empty. `PlaysInOrder`: what the callbacks account for is what
`audio_decode_frame` returned for the packets, in order, each unit once, over any cutting of frames by callbacks; of a packet with several
frames that is the first and then leftovers (the write through a wild pointer at `sdl_audio_out.c:224` is in the model, as a crash or
as nothing), and they take no place from any other packet. `PacketsArePlayed`:
no packet lies in the queue while the audio thread sleeps, unless the decoder is stuck. `PlayerEnds` names the only
ways in which a player does not end: a packet with a pts before the first one (the unsigned comparison at
`3-1-main.c:227`), and a quit while the callback waits for a packet or repeats one that never decodes. A crash counts as an end.

*Tools* (`examples`). `DemuxedIsOneStream`; `ExitCodeMeansRemuxed`: exit code 0 means that the muxer accepted every stream to copy as the
output stream of its rank, complete and in order, and that nothing of it is left in the muxer if the trailer was written; `MuxIsInterleaved` and `MuxKeepsOrder`: the two files advance together by
time, each in order, with at most one unwanted packet, at the end; `SavesEveryFrameTwice`;
`EncodesEveryFrame`: every frame read is written or in the encoder, once, with AAC in order, with H.264 at most changed over with a
neighbour, whichever become B-frames; `AdtsLengthReadsBack`: the length in the header reads back for sizes on both sides of every carry;
`DecodesEveryPart`: every part of every packet is written or held, once and in order, except for the end of a packet that `main` gave up, and
it gives one up only after a frame that could not be resampled, of that packet or of an earlier one; `FilterKeepsPace`: one frame pulled for one fed is enough; `ResamplerKeepsUp`, over all 469 rounds with the
real rates; `ToolEnds`: every tool returns or crashes without a failure's help, except for an audio decoder that consumes nothing.

## 4. Runs that show a disagreement

* `pusher_sigpipe`: `terminal.cc:45` takes a failing `write` for the sign of a closed
  socket and goes on; with the default disposition of SIGPIPE the process is ended.
* `pusher_exiting`: `exiting_` is never initialised, so the server may close its listener
  at once. The observer's `m_exiting` is initialised.
* `pusher_stalled`: the comment at `terminal_stream_observer.cc:60` describes per-terminal
  data and a thread pool; one client that stops reading stops its whole codec, and
  registration. The run states fairness for everything else, the frame loop included.
* `pcm_stale`: `Decode` returns 0 for `MPG123_NEW_FORMAT` with no PCM, and the loop encodes
  the buffer nevertheless.
* `player_mix`: `sdl_audio_out.c:95` mixes `len`, not `len1`, bytes, so the rest of SDL's buffer gets what lies
  behind the frame and the next frame on top of it; the comment at `:41` wants exactly `len` to be sent.
* `player_close`: at the end of the file the codec contexts are freed (`3-3-decode_video.c:584`,
  `3-1-main.c:279`) while the audio thread decodes with one of them.
* `scanner_frequency`: `(byte & 0x0C) >> 6` (`demo/mp3_decode_encode_test.cc:387`) is always 0, so frames of 48 and 32 kHz get the
  length of 44.1 kHz ones; the comment after it wants a number from 0 to 3.

## 5. Bounds and fairness

* *Connections.* A connection is used once; a client that comes back is another member of
  `Peers`. Three of them over two descriptors are the least with which a descriptor is
  reused while another client is open, and with which `accept()` fails for lack of one.
  Descriptor numbers matter by order and parity only, hence 8 and 9 (one of each codec) or
  9 and 11 (the same codec), with the listener at 7.
* *Frames.* `MaxIterations` bounds the MP3 frames put (1001 in the code); AAC frames are up
  to twice as many. A queue of one frame in the composed model makes dropping common; the
  pool alone is checked with 2 and 3, and proved for all lengths. `SendWindow = 1` makes
  every second unread write wait.
* *Symmetry* (`pusher_safety`) is over connections; no run with a liveness property uses it.
* *SIGPIPE.* `pusher_live` takes it for ignored, so that the refinement and the taking down are seen beyond the first write to a client that
  is gone; in the other runs it ends the process, as it does by default.
* *PCM.* 18 frames are two full cycles of the remainder (8 frames) and two more.
* *Pool.* Capacities 2 and 3 with 7 frames each: every queue fills, drops and empties more than once.
* *Blocking queue.* Capacities 1 and 2; two waiting producers, an overwriting one and two consumers
  are the least with which a notification can reach the wrong one of several waiters. One of the producers makes two calls;
  one spurious wake-up.
* *Scanner.* Two frames of 128 kbit/s with and without padding, at 48 kHz and with a bit rate that means nothing;
  bodies of 0x00 and 0xFF; junk with and without 0xFF; 0 or 90 bytes cut off.
* *Players.* Callbacks of 2 units over frames of 3 and 1, so that a callback begins and ends at every place of a
  frame. Six files, among them packets with decreasing and equal pts, of every quality; a packet of several frames
  makes 6 units (`ManyLen`), three of them leftovers, between two others. The sound
  starts after 2 packets instead of 10 (the comment at `3-1-main.c:206` says 5). The clock advances only
  where main looks at it, in ticks of 300 ms up to the latest pts.
* *Tools.* Files of up to seven packets, more than a codec holds (2 frames) and the graph keeps back (1); time bases that
  make timestamps meet; stream lists with gaps; packets of up to three frames, among them frames that are resized, cannot be
  resampled or have one plane, in front of and behind good ones. The resampler and the scaler run with the code's numbers.

`ServiceFairness` assumes: the main thread goes on outside its frame loop; the observer's
thread goes on (weak: nothing but a full window disables it for good); the server's thread
goes on (strong: its only step that another thread can disable is taking `mutex_`, and the
observer's `usleep(22000)` leaves the mutex free at every turn for far longer than a
hand-over needs); a client that is not in `Stalled` goes on reading or closes; a RST arrives.
Nothing makes a client connect or close, and nothing makes the frame loop go on. `LiveSpec`
adds that the frame loop goes on, which its finite input file justifies.

The fairness of `MCUnits` is that of `BlockingQueueFairness`: a thread that is not waiting goes on, and a thread that has been
notified gets the mutex; nobody is owed a wake-up without a notification. In `MCExamples`, main and the audio
thread of a player go on, and so does the clock where main looks at it; a tool goes on with `Works`.
`Fails` has no fairness: no tool is taken to fail in order to end. Both use weak fairness only.

## 6. Proofs

All are checked by TLAPS for every value of the constants that the named assumptions allow: no bound
on clients, descriptors, frames, packets, capacities or delays. An assumption is there when the code or
what it calls needs it:
`PoolAssumption`: capacities are positive, since `put(round, x)` reads `front()` of a full queue.
`DemuxDecodeAssumption`: a video packet has one part, as `decode_packet()` sets `decoded = pkt.size` (`:93`)
and only the branch for audio changes it; only a video frame can have another size. `EncoderAssumption`: packets up to
8184 bytes, what 13 bits of length leave for data. The other assumptions only say which set a constant belongs to.
Two theorems have a hypothesis of their own: `PusherImplementsBroadcast` has `Round # 0`, since `Broadcast` drops
the oldest frame and main makes its pool with `AudioFramePool(1)`; `MuxerInterleaves` has `PtsAscend`, below.
TLC evaluates the assumptions in the runs, and the files of `MCExamples` satisfy `PtsAscend`.

*The pusher.*

* **FramePool_proofs.** The invariant `PoolInv` adds to the types, per queue: the bound on its
  length, `past <= offered`, and that its frames increase strictly between the two; for a
  registered circular queue also its exact content, `offered - k + 1 .. offered`. The exact content
  alone is not inductive in the refusing mode, and the order alone does not give `HoldsNewest`.
  From it: `PoolTypeCorrect`, `PoolHoldsNewest`, `PoolInOrder`, `PoolTakesInOrder`.
* **Pusher_proofs.** `PusherUsesPool` shows that every step of the program is a step of the pool
  or leaves it alone, so the pool's theorems are the program's (`PusherHoldsNewest`).
  `TypeCorrect` is type correctness of all 25 variables. For the four safety properties the
  invariant is `TypeInv /\ SafeInv`. `SafeInv` is `TerminalsAreConnected`, `OpenIsServed`,
  `conn[NoFd] = NoPeer`, and two parts that the properties do not say: `Handling` (what is true of
  `cur` at each place of the take-down: open until `close`, not watched from the farewell on,
  closed and unused until after the late write; unregistered when it is being registered) and
  `Walking` (`todo` is a part of the registry, and empty unless the mutex is held). `Walking`
  is inductive because unregistering needs the mutex; `Handling` because only the server's thread
  accepts. Conclusions: `TerminalsStayConnected`, `WritesStayWithPeer`,
  `RegistrationAlwaysSucceeds`, `OpenStaysServed`.
* **PusherStreams_proofs.** `StreamsAreOrdered` is not inductive: it says nothing of a frame that is taken
  but not yet written. `StreamInv` adds `Linked` (a connection is asked for once, waits at one place of the
  backlog and is then behind one descriptor), `Fresh` (nothing is written to a connection before its
  terminal is registered, so a reused descriptor starts an empty stream), `Marching` (what was written
  is at most `past`, and the frame in `frameBuf_` is newer than all that was written to those in `todo`) and
  `OneKind` (one type per descriptor). Conclusion: `StreamsStayOrdered`. `PusherImplementsBroadcast` takes from these
  invariants, and from `Registering` (which types are registered at each place of `main()`), that every step maps to the step of
  `Broadcast` listed in section 3, or to a stutter. `Roster` says what the refinement mapping gives for a client:
  with its terminal in `todo`, its stream and the frame it is owed; so `NotifyAll`'s walk, write by write, leaves
  `feed` alone.

*Its parts* (**Units_proofs**).

* Reframer: `RInv` says, place by place, how `total`, `sent`, `index` and `remain` add
  up and which prefix of `aacPcmBuffer` is the next PCM. Conclusions, for any frame size and file:
  `ReframerTypeCorrect`, `ReframerCopiesFit`, `ReframerConservesPcm`, `ReframerEncodesInOrder`.
* Blocking queue: `BQInv` is four parts: `Types`; `Places` (a thread is between its guard and its unlock exactly when
  it has the pthread mutex, and what its test of the predicate found still holds at its push or pop: a full
  queue only for an overwriter, an empty one never); `Fifo` (consecutive elements, within the capacity); `Holder` (whoever
  waits has waited since its lock, and a stale `m_holder` names a thread that waits). `QueueIsFifo` alone is not inductive, as it does
  not say that only one thread is inside; nor is `HolderIsTruthful`, which leaves out who may be named while nobody has the mutex.
  Conclusions, for any threads, capacities, calls and spurious wake-ups: `BQTypeCorrect`, `BQIsFifo`, `BQHolderIsTruthful`.
* Scanner: `ScanInv` has that lengths are such as a header gives and that found frames do not overlap
  (`ScannerKeepsFramesApart`). `FindInv` adds, for a regular file, a number `k` of frames that
  have been passed (`HasPassed`): they are the first `k`, and the loop is at the first byte of the next one (or in the junk
  before the first), or has given up on one that is cut off. The frames' lengths come from the table of bit rates by cases, the place
  of a byte in the file from the sums of these lengths (`SumsUp`), and inside a frame whose header has been read the loop never
  looks. Conclusion: `ScannerFindsAll`.

*The players* (**Player_proofs**), for both `main()`s, since the second shares the audio thread.

* `ListInv` is `QueueIsList` by position: the nodes are the last `nb_packets` of the packets put, whose numbers
  increase. That they increase, so that no node is put twice, is what `QueueIsList` leaves out and needs
  `readPos` in `PlayerInv`. Conclusion: `QueueStaysList`.
* `SoundInv`: what is accounted for, followed by what is pending in `audio_buf` or will come of the packet
  being decoded, is the sound of all packets taken, at every place of the audio thread. `PlaysInOrder` says this of the first
  part only; what `audio_decode_frame` returns for a packet is `Sound`, leftovers included. Conclusion: `SoundStaysInOrder`.

*The tools.* Each has an invariant that relates output, decoder or filter and input at each place of the program.

* **Tools_proofs.** `WatermarkInv`: the graph holds at most `FilterDelay` frames at the places where it is fed, one more
  while it is drained (`WatermarkKeepsPace`). `ResamplingInv`: the bound of the backlog, whichever way `swr_get_delay` rounds
  (`ResamplerAlwaysKeepsUp`). `EncoderInv`: output and encoder together hold the frames `1..taken`, each at its place or changed over with a neighbour (with H.264: at
  most one pair across the point between the two, and the encoder's frames increase), a frame's pts differs from its number
  by what the encoder held (`PtsFits`), which `frameCount` gives (`EncoderKeepsFrames`, `AdtsAlwaysReadsBack`).
* **Packets_proofs.** `DemuxerInv`, `H264Inv`, `AacInv`: an output and what the decoder holds list the packets read of
  the chosen stream (`DemuxerWritesOneStream`, `DecodersSaveTwice`). `RemuxerInv`: the same per stream and before the exit code is
  known, and that a written trailer leaves nothing in the muxer; `stream_mapping` is injective and its rank is counted (`RemuxerCopiesAll`). `MuxerInv` (`Muxes`): an unwanted packet is written only
  when its file has ended (`MuxerKeepsOrder`). `DdInv`: per decoder, `Complete` (the parts decoded are written or held, in order) and `Reached`
  (all before the part that comes next), whatever part of the packet is left; what was given up is the end of a packet (`LostFine`) and
  has a refused frame in the output, not newer than it, to account for it (`Excused`) (`DemuxDecodesEveryPart`).
  `Interleaved`: no packet to come is before `cur_pts` of its file (`Following`), none written is after it, and each packet but
  the newest of its file is not after `cur_pts` of the other file, at the moment it was compared and thereafter
  (`MuxerInterleaves`). It needs `PtsAscend`: the pts of the wanted packets of a file ascend from 0, or all are missing. With
  pictures stored out of order, `cur_pts` goes back and the code promises nothing of the kind.

**SeqLemmas** has what these share: `FlattenSeq` and running sums are recursive functions, whose values the provers
cannot find by induction over a predicate; they are proved to exist, to be unique and to go on by one from
the smallest number at which they would not (`SmallestNat`, from well-foundedness).

**Model-checked only:** the liveness properties `EverythingGetsThrough`, `PacketsArePlayed`, `PlayerEnds`, `ToolEnds`,
`ClosedIsTakenDown`, `ProducerNeverBlocks` and `ShutdownCompletes` (liveness under fairness and `ENABLED` are outside the prover), that
the programs do not deadlock (`ENABLED` again), and the seven disagreements. Every invariant, every action property
and the refinement that the passing runs check are theorems. The theorems about a tool, a player or a part are about its own
specification (`DemuxerSpec`, `PlayerSpec`, `ScannerSpec`, ...), those of the runs about one of them at a time, chosen in the initial state.

## 7. What is left out

*Pusher.* The bytes of frames; `Terminal::buffer_`, which is never read; the length of what
`read()` returns, so also the store to `buf_[str_len]` (a hazard, planned). `Pusher` reduces the search for an MP3
header to the choice between a frame and none; `FrameScanner` has the search itself, and the two are not composed. `socket`, `bind`,
`listen`, thread creation and memory allocation succeed. Reads interrupted by signals do not occur, since the program installs
no handler. Plain `bool` flags shared by threads are modelled as reads that see the latest value:
each is read next to a system call or a lock. The output files of the frame loop are left out.

*Scanner.* The quotient of floats is taken as the integer one: it is never near enough to a whole number to round otherwise.

The pacing of the frame loop by the frame's duration is left out.

*Players.* The contents of pictures; what a write through the wild pointer of `sdl_audio_out.c:224` changes, if it does not end
the process; memory that is not freed. The scaler of `3-3-decode_video`
is taken to exist. `SDL_PollEvent` leaves `event` alone when there is none, so the branch without `SDL_QUIT` is always possible.

*Buffers.* `Add()` of `SharedBuffer` computes its new size as `((len + size_)>>11 + 1) * 2048` (`base/shared_buffer.cc:49`), which is
`(len + size_) >> 12` times 2048, as `+` comes before `>>`: less than what it then copies, for any length. No caller lets a buffer grow, and a
model of the sizes would say no more than that line.

*Tools.* `av_read_frame` at the end of a file is taken to leave the packet as it was (`MuxStale`). The raw outputs of
the demuxer have no timestamps, so none is refused there. The bit stream filters change bytes only; the muxer
tests the flags of `ifmt_ctx_v` where it speaks of the audio input (`3-7-h264_aac_muxer.c:121`). In **Decoders** and **DemuxDecode**
pictures are numbered as the decoder gives them out, so that their order says nothing of B-frames in the input. The muxer's files have either a
pts on every packet or on none. The watermark's filter graph gives no more frames than it is fed.
What a crash does to files already written is not asked. That the remuxer returns 0 although the trailer failed
(`3-9-remuxer.c:204`), and that the demuxing decoder loses the rest of a packet when its resampler refuses a frame
(`3-4-demuxing_decoding.c:213-217`, against the comment at `:154`), is in the models, and `ExitCodeMeansRemuxed` and `DecodesEveryPart` say
what is left; no run of its own shows either.

*External.* Sockets and TCP, `pthread_cond_wait`, `getc` and the contents of files, codecs, resamplers, scalers, filter
graphs and muxers, the clock: all from their use by the code.

*Not modelled*, with the reasons in `PROJECT.json`: the wrappers of LAME and FDK-AAC, the empty decoder and encoder
threads, the Boost copy (same control, raw pointers), `3-7-2.c` (no build file names it), the codec tests.

## 8. Plan

Done, in this order: `FramePool`, `Sockets`, `TerminalObserver`, `TerminalServer`, `Pusher`, `Broadcast`, the pool's and the
pusher's proofs, `PcmReframer` and its proofs; then `BlockingQueue` and its proofs, `FrameScanner`, the players and the tools;
then the streams and the refinement, and the invariants of the scanner, the players and the tools; then
packets of several frames in the players, B-frames in the encoder, the trailer of the remuxer, and the packets that the demuxing decoder gives up.

1. More proofs: type correctness of the parts and tools that have only their own invariants; lemmas that
   say of `Broadcast` itself what a member can rely on, carried over to the program by the refinement.
2. `AnswerBuffer`: unread bytes of the clients' answers against `NET_BUF_SIZE` and `buf_[str_len]`.
3. `FrameScanner` and `PcmReframer` composed in `Pusher`'s main thread, on a small file.
