\* A callback of 2 units over frames of 3 and 1, so that frames are cut and joined;
\* the sound starts after 2 packets; 500 ms of lead in ticks of 300, up to 900 ms, the
\* latest pts.  Codecs that hold 2 frames and a graph that holds 1; the sizes of AAC
\* packets with which the length's carry reaches each byte of the header; the
\* resampler's and the scaler's real numbers.
CONSTANTS
  Media <- MCMedia
  CallbackLen = 2
  FrameLen = 3
  ShortLen = 1
  ManyLen = 6
  SilenceLen = 1
  BufferedPackets = 2
  Tick = 300
  MaxClock = 900
  DemuxFiles <- MCDemuxFiles
  RemuxFiles <- MCRemuxFiles
  MuxFiles <- MCMuxFiles
  DecodeFiles <- MCDecodeFiles
  DecoderDelay = 2
  RawFiles <- MCRawFiles
  EncoderDelay = 2
  PacketSizes = {1, 249, 2041, 8184}
  DdFiles <- MCDdFiles
  DdDelay = 2
  WmFiles <- MCWmFiles
  FilterDelay = 1
  SrcSamples = 1024
  Taps = 16
  Rounds = 469
  Pictures = 100
SPECIFICATION Spec
INVARIANTS
  QueueIsList
  PlaysInOrder
  DemuxedIsOneStream
  ExitCodeMeansRemuxed
  MuxIsInterleaved
  MuxKeepsOrder
  SavesEveryFrameTwice
  EncodesEveryFrame
  AdtsLengthReadsBack
  DecodesEveryPart
  FilterKeepsPace
  ResamplerKeepsUp
PROPERTIES
  PlayerEnds
  PacketsArePlayed
  ToolEnds
