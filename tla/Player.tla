-------------------------------- MODULE Player --------------------------------
(***************************************************************************)
(* The main thread of the player (example/3-1-palyer/3-1-main.c) with its  *)
(* window (sdl_display.c): it reads the file, shows the video frames, puts *)
(* the audio packets into the queue that the audio thread of AudioOut      *)
(* empties, and keeps its lead over the clock small.                       *)
(***************************************************************************)
EXTENDS AudioOut

CONSTANTS
  BufferedPackets,   \* audio packets before the sound starts: 10
  Tick,              \* milliseconds the clock advances at a time
  MaxClock           \* bound on the clock

ASSUME PlayerAssumption ==
  BufferedPackets \in Nat \ {0} /\ Tick \in Nat \ {0} /\ MaxClock \in Nat

NotEnded == 99   \* no exit code yet

VARIABLES
  mpc,                  \* where main() is
  readPos,              \* the packet av_read_frame() returned last
  firstGotAudioFrame, audioFirstPts, audioBufferFrames,
  clock,                \* getNowTime() - playStartTime
  display,              \* how far SDL2DisplayInit() got
  picture,              \* what the window shows
  exitCode

countVars == <<firstGotAudioFrame, audioFirstPts, audioBufferFrames>>
windowVars == <<display, picture>>

mainVars == <<media, mpc, readPos, countVars, clock, windowVars, exitCode>>

playerVars == <<mainVars, audioVars, queueVars>>

PlayerAt(place) ==
  /\ AudioInit
  /\ media = <<>>
  /\ mpc = place /\ readPos = 0
  /\ firstGotAudioFrame = FALSE /\ audioFirstPts = 0 /\ audioBufferFrames = 0
  /\ clock = 0
  /\ display = "none" /\ picture = "none"
  /\ exitCode = NotEnded

PlayerInit == PlayerAt("start")

\* Arguments, SDL, file, streams or a codec: whatever fails ends the program,
\* with 1 up to SDL_Init() and with -1 after it.
OpenFails ==
  /\ mpc = "start"
  /\ exitCode' \in {1, -1}
  /\ mpc' = "ended"
  /\ UNCHANGED <<media, readPos, countVars, clock, windowVars, audioVars, queueVars>>

\* The file is one of Media; "audio" and "video" are the packets of the last
\* stream of each type.  Nobody looks at the results of the two init functions.
OpenPlayer ==
  /\ mpc = "start"
  /\ media' \in Media
  /\ SDL2AudioOutInit
  /\ mpc' = "display"
  /\ UNCHANGED <<readPos, countVars, clock, windowVars, exitCode>>

\* Window, texture, scaler and the frame it scales to, up to the first failure.
SDL2DisplayInit ==
  /\ mpc = "display"
  /\ display' \in {"none", "window", "texture", "scaler", "frame"}
  /\ mpc' = "read"
  /\ UNCHANGED <<media, readPos, countVars,
                 clock, picture, exitCode, audioVars, queueVars>>

\* The frame is scaled if there is a frame to scale it to, else it goes to the
\* texture as it is; without a texture or a window the calls of SDL fail.
SDL2Display ==
  picture' = IF display \in {"none", "window"} THEN picture
             ELSE IF display = "frame" THEN "scaled" ELSE "raw"

Reading == mpc = "read" /\ readPos < Len(media)

\* A video packet: a frame or none.
ReadVideo ==
  /\ Reading /\ media[readPos + 1].stream = "video"
  /\ readPos' = readPos + 1
  /\ SDL2Display \/ UNCHANGED picture
  /\ mpc' = "poll"
  /\ UNCHANGED <<media, countVars, clock, display, exitCode, audioVars, queueVars>>

\* A packet of another stream.
ReadOther ==
  /\ Reading /\ media[readPos + 1].stream = "other"
  /\ readPos' = readPos + 1
  /\ mpc' = "poll"
  /\ UNCHANGED <<media, countVars, clock, windowVars, exitCode, audioVars, queueVars>>

SDL2AudioPushPacket(p) == packet_queue_put(p, PacketSize(p)) \/ packet_queue_put_fails

ReadAudio ==
  /\ Reading /\ media[readPos + 1].stream = "audio"
  /\ readPos' = readPos + 1
  /\ SDL2AudioPushPacket(readPos + 1)
  /\ mpc' = "pace"
  /\ UNCHANGED <<media, countVars, clock, windowVars, exitCode, audioVars>>

\* Mutant: the time played so far is not added.
AheadFrozen(lead) ==
  LET lag == media[readPos].pts - audioFirstPts IN lag < 0 \/ lag > lead

\* The difference is an int64_t, compared with an uint64_t: below 0 it is larger
\* than any time.
Ahead(lead) ==
  LET lag == media[readPos].pts - audioFirstPts IN lag < 0 \/ lag > clock + lead

\* while(...) SDL_Delay(30), then the packets are counted until the sound starts.
Pace ==
  /\ mpc = "pace"
  /\ firstGotAudioFrame => ~Ahead(500)
  /\ firstGotAudioFrame' = TRUE
  /\ audioFirstPts' = IF firstGotAudioFrame THEN audioFirstPts ELSE media[readPos].pts
  /\ audioBufferFrames' = IF audioBufferFrames < BufferedPackets
                          THEN audioBufferFrames + 1 ELSE audioBufferFrames
  /\ device' = IF device = "paused" /\ audioBufferFrames' = BufferedPackets
               THEN "running" ELSE device
  /\ mpc' = "poll"
  /\ UNCHANGED <<media, readPos, clock, windowVars, exitCode, codec, threadVars, queueVars>>

\* No SDL_QUIT.  event is not initialised and SDL_PollEvent() leaves it alone when
\* there is none, so the other branch may be taken without one, too.
PollNothing ==
  /\ mpc = "poll"
  /\ mpc' = "read"
  /\ UNCHANGED <<media, readPos, countVars,
                 clock, windowVars, exitCode, audioVars, queueVars>>

\* SDL_QUIT: SDL_Quit() closes the device, whose thread is to finish its callback.
PollQuit ==
  /\ mpc = "poll"
  /\ mpc' = "quit"
  /\ device' = IF device = "closed" THEN "closed" ELSE "quitting"
  /\ UNCHANGED <<media, readPos, countVars,
                 clock, windowVars, exitCode, codec, threadVars, queueVars>>

Exit ==
  /\ mpc = "quit"
  /\ apc = "idle" \/ device = "closed"
  /\ exitCode' = 0
  /\ mpc' = "ended"
  /\ UNCHANGED <<media, readPos, countVars, clock, windowVars, audioVars, queueVars>>

\* The file is read: avformat_close_input() frees both codec contexts while the
\* audio thread goes on.
CloseInput ==
  /\ mpc = "read" /\ readPos = Len(media)
  /\ codec' = FALSE
  /\ mpc' = "destroy"
  /\ UNCHANGED <<media, readPos, countVars,
                 clock, windowVars, exitCode, device, threadVars, queueVars>>

\* What SDL2DisplayInit() made is destroyed, and main() returns.
SDL2DisplayDestory ==
  /\ mpc = "destroy"
  /\ display' = "none"
  /\ exitCode' = 0
  /\ mpc' = "ended"
  /\ UNCHANGED <<media, readPos, countVars, clock, picture, audioVars, queueVars>>

\* The audio thread has not taken the process with it.
Alive == apc # "crashed"

Main ==
  /\ Alive
  /\ \/ OpenFails \/ OpenPlayer \/ SDL2DisplayInit \/ ReadVideo \/ ReadOther \/ ReadAudio
     \/ Pace \/ PollNothing \/ PollQuit \/ Exit \/ CloseInput \/ SDL2DisplayDestory

\* The audio thread is gone once the process has ended.
Audio == mpc # "ended" /\ AudioThread /\ UNCHANGED mainVars

\* Time only matters, and only passes, where main() looks at it.
Clock ==
  /\ Alive /\ mpc = "pace" /\ clock + Tick <= MaxClock
  /\ clock' = clock + Tick
  /\ UNCHANGED <<media, mpc, readPos, countVars, windowVars, exitCode, audioVars, queueVars>>

PlayerNext == Main \/ Audio \/ Clock

PlayerSpec == PlayerInit /\ [][PlayerNext]_playerVars

-----------------------------------------------------------------------------

\* Main waits for its place in the file, for the audio thread, or for ever: a pts
\* before the first one, and a quit while the callback waits for a packet or
\* decodes a bad one again and again, are the only ways not to end, but for a crash
\* on a packet of several frames.
PtsBeforeFirst == mpc = "pace" /\ firstGotAudioFrame /\ media[readPos].pts < audioFirstPts
QuitInCallback == mpc = "quit" /\ (Starved \/ Spinning)

PlayerEnds == <>(mpc = "ended" \/ PtsBeforeFirst \/ QuitInCallback \/ ~Alive)

\* While main() is running, the audio thread does not sleep beside a packet: what
\* is in the queue is taken or the decoder is stuck on a bad packet.
PacketsArePlayed ==
  (first_pkt # NULL /\ device = "running") ~>
    (first_pkt = NULL \/ Spinning \/ device # "running" \/ mpc = "ended" \/ ~Alive)

=============================================================================
