----------------------------- MODULE FrameScanner -----------------------------
(***************************************************************************)
(* How mp3DecodeEncode() (demo/mp3_decode_encode_test.cc) finds the frames *)
(* of its MP3 file: the loop at the label syncWordSearch and the functions *)
(* that read a header's third byte.                                        *)
(*                                                                         *)
(* A file is some junk, then frames, and may be cut off; of a frame only   *)
(* the third header byte and the value its body repeats are told apart.    *)
(***************************************************************************)
EXTENDS Integers, Sequences, SequencesExt, FiniteSetsExt

CONSTANTS
  Junks,         \* what may stand before the first frame: sequences of bytes
  ThirdBytes,    \* third header bytes of the frames
  BodyBytes,     \* values that a frame's body may repeat
  MaxFileFrames, \* bound on the frames of a file
  Cuts,          \* bytes that may be missing at the end of the file
  MaxTurns       \* bound on the frames the loop reads: 1001 (forBreakCount)

ASSUME ScannerAssumption ==
  /\ Junks \subseteq Seq(0..255)
  /\ ThirdBytes \subseteq 0..255 /\ BodyBytes \subseteq 0..255
  /\ MaxFileFrames \in Nat /\ Cuts \subseteq Nat /\ MaxTurns \in Nat \ {0}

VARIABLES
  mp3File,    \* ifMp3: [junk, frames, cut]
  filePos,    \* ftell(ifMp3)
  scanning,   \* FALSE once the loop has ended
  found       \* history: <<place, length>> of the frames passed to Decode()

scanVars == <<mp3File, filePos, scanning, found>>

-----------------------------------------------------------------------------
(* The functions on a header's third byte. *)

findFramePadding(b) == (b \div 2) % 2

\* In kbit/s; the code's table is in bit/s.
Bitrates == <<0, 32, 40, 48, 56, 64, 80, 96, 112, 128, 160, 192, 224, 256, 320, 0>>
findFrameBitRate(b) == Bitrates[b \div 16 + 1]

\* (b & 0x0C) >> 6: the two bits have left the byte.
findFrameSamplingFrequency(b) == <<44100, 48000, 32000, 0>>[(((b \div 4) % 4) \div 16) + 1]

\* Mutant: the padding byte is forgotten.
FrameLengthUnpadded(b) ==
  (144 * 1000 * findFrameBitRate(b)) \div findFrameSamplingFrequency(b)

\* The code divides floats; the quotient is never so near to a whole number
\* that this could round differently.
FrameLength(b) ==
  (144 * 1000 * findFrameBitRate(b)) \div findFrameSamplingFrequency(b)
    + findFramePadding(b)

-----------------------------------------------------------------------------
(* Files. *)

\* The length that MPEG-1 Layer III gives a frame; a bit rate or a sampling
\* frequency that means nothing stands for a bare header.
MpegFrequency(b) == <<44100, 48000, 32000, 0>>[((b \div 4) % 4) + 1]
MpegLength(b) ==
  IF findFrameBitRate(b) = 0 \/ MpegFrequency(b) = 0 THEN 4
  ELSE (144 * 1000 * findFrameBitRate(b)) \div MpegFrequency(b) + findFramePadding(b)

\* Where the frames of file f start, and where the last one ends.
FrameStarts(f) ==
  LET start[i \in 1..(Len(f.frames) + 1)] ==
        IF i = 1 THEN Len(f.junk) ELSE start[i - 1] + MpegLength(f.frames[i - 1].third)
  IN start

FrameStart(f, i) == FrameStarts(f)[i]

FileSize(f) == FrameStart(f, Len(f.frames) + 1) - f.cut

Byte(f, p) ==
  IF p >= FileSize(f) THEN 255                      \* (unsigned char)EOF
  ELSE IF p < Len(f.junk) THEN f.junk[p + 1]
  ELSE LET i == CHOOSE j \in DOMAIN f.frames :
                  FrameStart(f, j) <= p /\ p < FrameStart(f, j + 1)
           k == p - FrameStart(f, i)
       IN CASE k = 0 -> 255
            [] k = 1 -> 251
            [] k = 2 -> f.frames[i].third
            [] OTHER -> f.frames[i].body

After(p, n) == IF p + n <= FileSize(mp3File) THEN p + n ELSE FileSize(mp3File)

\* The next 0xFF from p on, or the end of the file.  Where bytes change there is
\* junk or one of the first four bytes of a frame.
NextFF(p) ==
  LET changes == (0..Len(mp3File.junk)) \cup
                 {FrameStart(mp3File, i) + k : i \in DOMAIN mp3File.frames, k \in 0..3}
      ffs == {q \in {p} \cup changes :
                p <= q /\ q < FileSize(mp3File) /\ Byte(mp3File, q) = 255}
  IN IF ffs = {} THEN FileSize(mp3File) ELSE Min(ffs)

-----------------------------------------------------------------------------

OpenMp3(f) ==
  /\ mp3File = f
  /\ filePos = 0 /\ scanning = TRUE /\ found = <<>>

Files ==
  {f \in [junk : Junks,
          frames : SeqOf([third : ThirdBytes, body : BodyBytes], MaxFileFrames),
          cut : Cuts] : FileSize(f) >= Len(f.junk)}

ScannerInit == \E f \in Files : OpenMp3(f)

\* The four bytes of a header that starts at the next 0xFF.
Sync == NextFF(filePos)
AtEnd == filePos >= FileSize(mp3File)
Third == Byte(mp3File, Sync + 2)
SyncWord == Byte(mp3File, Sync + 1) \div 16 \in {14, 15}
IsHeader == findFrameBitRate(Third) # 0 /\ findFrameSamplingFrequency(Third) # 0

\* getc() up to a 0xFF whose next byte is no sync word; both are consumed.
SkipBytes ==
  /\ scanning /\ ~AtEnd
  /\ Sync = FileSize(mp3File) \/ ~SyncWord
  /\ filePos' = After(Sync, 2)
  /\ UNCHANGED <<mp3File, scanning, found>>

\* "Error: not a header": the search goes on after its four bytes.
NotAHeader ==
  /\ scanning /\ ~AtEnd /\ Sync < FileSize(mp3File)
  /\ SyncWord /\ ~IsHeader
  /\ filePos' = After(Sync, 4)
  /\ UNCHANGED <<mp3File, scanning, found>>

\* "Error: fread a frame": fread() has read up to the end of the file.
FrameIsShort ==
  /\ scanning /\ ~AtEnd /\ Sync < FileSize(mp3File)
  /\ SyncWord /\ IsHeader
  /\ Sync + FrameLength(Third) > FileSize(mp3File)
  /\ filePos' = FileSize(mp3File)
  /\ UNCHANGED <<mp3File, scanning, found>>

\* Mutant: the result of fread() is not compared with the length.
ReadFrameUnchecked ==
  /\ scanning /\ ~AtEnd /\ Sync < FileSize(mp3File)
  /\ SyncWord /\ IsHeader
  /\ found' = Append(found, <<Sync, FrameLength(Third)>>)
  /\ filePos' = After(Sync, FrameLength(Third))
  /\ scanning' = (Len(found) + 1 < MaxTurns)
  /\ UNCHANGED mp3File

\* A whole frame is read and decoded.
ReadFrame ==
  /\ scanning /\ ~AtEnd /\ Sync < FileSize(mp3File)
  /\ SyncWord /\ IsHeader
  /\ Sync + FrameLength(Third) <= FileSize(mp3File)
  /\ found' = Append(found, <<Sync, FrameLength(Third)>>)
  /\ filePos' = Sync + FrameLength(Third)
  /\ scanning' = (Len(found) + 1 < MaxTurns)        \* if(forBreakCount++ >= 1000)
  /\ UNCHANGED mp3File

EndOfFile ==
  /\ scanning /\ AtEnd
  /\ scanning' = FALSE
  /\ UNCHANGED <<mp3File, filePos, found>>

ScannerDone == ~scanning /\ UNCHANGED scanVars

ScannerNext ==
  SkipBytes \/ NotAHeader \/ FrameIsShort \/ ReadFrame \/ EndOfFile \/ ScannerDone

ScannerSpec == ScannerInit /\ [][ScannerNext]_scanVars

-----------------------------------------------------------------------------

\* What the parser is made for: 44.1 kHz frames and no 0xFF before them.
Regular(f) ==
  /\ 255 \notin {f.junk[i] : i \in DOMAIN f.junk}
  /\ \A i \in DOMAIN f.frames :
       findFrameBitRate(f.frames[i].third) # 0 /\ MpegFrequency(f.frames[i].third) = 44100

WholeFrames(f) == {i \in DOMAIN f.frames : FrameStart(f, i + 1) <= FileSize(f)}

\* In a regular file the decoder gets exactly the whole frames, each from its
\* first byte to its last, although bodies may look like headers and a file may
\* end inside a frame (1000 frames are read at most).
FindsEveryFrame ==
  ~scanning /\ Regular(mp3File) =>
    found = [i \in 1..(IF Cardinality(WholeFrames(mp3File)) <= MaxTurns
                       THEN Cardinality(WholeFrames(mp3File)) ELSE MaxTurns) |->
               <<FrameStart(mp3File, i), MpegLength(mp3File.frames[i].third)>>]

\* "Then we have a number 0 to 3 corresponding to the freqs in the array"
\* (demo/mp3_decode_encode_test.cc:388): whichever sampling frequencies the headers
\* name, the decoder gets the whole frames of a file, with the length that they have.
FindsEveryFrequency ==
  /\ ~scanning
  /\ 255 \notin ToSet(mp3File.junk)
  /\ \A i \in DOMAIN mp3File.frames :
       LET b == mp3File.frames[i].third IN findFrameBitRate(b) # 0 /\ MpegFrequency(b) # 0
  => \A i \in WholeFrames(mp3File) :
       i <= MaxTurns =>
         <<FrameStart(mp3File, i), MpegLength(mp3File.frames[i].third)>> \in ToSet(found)

\* In any file, even one where it has lost its place, what the parser passes to
\* the decoder lies inside the file and inside mp3RawBuffer, and no byte is
\* passed twice.
FramesAreApart ==
  \A i \in DOMAIN found :
    /\ 5 <= found[i][2] /\ found[i][2] <= 4608
    /\ found[i][1] + found[i][2] <= (IF i < Len(found) THEN found[i + 1][1] ELSE filePos)
    /\ filePos <= FileSize(mp3File)

=============================================================================
