\* As MCExamples.cfg, and a callback that sends len units.
CONSTANTS
  Media <- MCMedia
  CallbackLen = 2
  FrameLen = 3
  ShortLen = 1
  ManyLen = 6
  SilenceLen = 1
  BufferedPackets = 2
  Tick = 300
  MaxClock = 900
  DemuxFiles <- MCDemuxFiles
  RemuxFiles <- MCRemuxFiles
  MuxFiles <- MCMuxFiles
  DecodeFiles <- MCDecodeFiles
  DecoderDelay = 2
  RawFiles <- MCRawFiles
  EncoderDelay = 2
  PacketSizes = {1, 249, 2041, 8184}
  DdFiles <- MCDdFiles
  DdDelay = 2
  WmFiles <- MCWmFiles
  FilterDelay = 1
  SrcSamples = 1024
  Taps = 16
  Rounds = 469
  Pictures = 100
SPECIFICATION Spec
INVARIANT
  CallbackSendsOnce
