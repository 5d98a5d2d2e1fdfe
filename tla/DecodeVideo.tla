----------------------------- MODULE DecodeVideo -----------------------------
(***************************************************************************)
(* The second player (example/3-3-decode_video/3-3-decode_video.c).  Its   *)
(* audio thread and its packet queue are copies of the player's; its       *)
(* main() opens everything itself, starts the sound before the first       *)
(* packet, exits when the window cannot be made, and keeps a lead of 100   *)
(* ms from the first audio packet on.                                      *)
(***************************************************************************)
EXTENDS Player

DvPut(p) == packet_queue_put(p, PacketSize(p)) \/ packet_queue_put_fails

DvCallback == audio_callback

DvDecodeFrame == audio_decode_frame

DvAudio == mpc # "ended" /\ (DvCallback \/ DvDecodeFrame) /\ UNCHANGED mainVars

\* Up to the audio device.
DvOpenFails ==
  /\ mpc = "start"
  /\ exitCode' \in {1, -1}
  /\ mpc' = "ended"
  /\ UNCHANGED <<media, readPos, countVars, clock, windowVars, audioVars, queueVars>>

\* The device is open, and started as soon as there is a decoder for the video.
DvOpenAudio ==
  /\ mpc = "start"
  /\ media' \in Media
  /\ device' = "running" /\ codec' = TRUE
  /\ mpc' = "video"
  /\ UNCHANGED <<readPos, countVars, clock, windowVars, exitCode, threadVars, queueVars>>

\* The video codec or a frame (-1), or the window (1).
DvVideoFails ==
  /\ mpc = "video"
  /\ exitCode' \in {1, -1}
  /\ mpc' = "ended"
  /\ UNCHANGED <<media, readPos, countVars, clock, windowVars, audioVars, queueVars>>

\* The texture may be missing; the scaler is taken to be there.
DvOpenVideo ==
  /\ mpc = "video"
  /\ display' \in {"window", "frame"}
  /\ mpc' = "read"
  /\ UNCHANGED <<media, readPos, countVars, clock, picture, exitCode, audioVars, queueVars>>

DvReadVideo ==
  /\ Reading /\ media[readPos + 1].stream = "video"
  /\ readPos' = readPos + 1
  /\ picture' \in {picture, IF display = "frame" THEN "scaled" ELSE picture}
  /\ mpc' = "poll"
  /\ UNCHANGED <<media, countVars, clock, display, exitCode, audioVars, queueVars>>

\* The first packet sets audioFirstPts and is then held against it itself.
DvReadAudio ==
  /\ Reading /\ media[readPos + 1].stream = "audio"
  /\ readPos' = readPos + 1
  /\ DvPut(readPos + 1)
  /\ firstGotAudioFrame' = TRUE
  /\ audioFirstPts' = IF firstGotAudioFrame THEN audioFirstPts ELSE media[readPos'].pts
  /\ mpc' = "pace"
  /\ UNCHANGED <<media, audioBufferFrames, clock, windowVars, exitCode, audioVars>>

DvPace ==
  /\ mpc = "pace" /\ ~Ahead(100)
  /\ mpc' = "poll"
  /\ UNCHANGED <<media, readPos, countVars, clock, windowVars, exitCode, audioVars, queueVars>>

DvReadOther == ReadOther

DvPoll == PollNothing \/ PollQuit \/ Exit

\* The texture and the frames go, the input is closed, and main() returns.
DvClose ==
  /\ mpc = "read" /\ readPos = Len(media)
  /\ codec' = FALSE
  /\ display' = "window"
  /\ exitCode' = 0
  /\ mpc' = "destroy"
  /\ UNCHANGED <<media, readPos, countVars, clock, picture, device, threadVars, queueVars>>

DvReturn ==
  /\ mpc = "destroy"
  /\ mpc' = "ended"
  /\ UNCHANGED <<media, readPos, countVars, clock, windowVars, exitCode, audioVars, queueVars>>

DvMain ==
  /\ Alive
  /\ \/ DvOpenFails \/ DvOpenAudio \/ DvVideoFails \/ DvOpenVideo \/ DvReadVideo
     \/ DvReadAudio \/ DvReadOther \/ DvPace \/ DvPoll \/ DvClose \/ DvReturn

DvSpec == PlayerInit /\ [][DvMain \/ DvAudio \/ Clock]_playerVars

=============================================================================
