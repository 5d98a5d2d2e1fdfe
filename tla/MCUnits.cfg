\* A circular pool (round_ = 1), as the program builds it; 4096 and 4608 bytes of
\* PCM in units of 512, more than two cycles of 8 MP3 frames; a blocking queue
\* with an overwriting and two waiting producers and two consumers; files of up
\* to two frames of 128 kbit/s, with and without padding, at 48 kHz and broken.
CONSTANTS
  AudioType = {"mp3", "aac"}
  MaxFrames <- MCMaxFrames
  Round = 1
  MaxOffered = 7
  AacFrame = 8
  MaxDecodes = 18
  Producers = {"p1", "p2", "ov"}
  Overwriters = {"ov"}
  Consumers = {"c1", "c2"}
  Capacities = {1, 2}
  MaxPuts <- MCMaxPuts
  MaxSpurious = 1
  Junks <- MCJunks
  ThirdBytes = {144, 146, 148, 240}
  BodyBytes = {0, 255}
  MaxFileFrames = 2
  Cuts = {0, 90}
  MaxTurns = 3
SPECIFICATION Spec
INVARIANTS
  PoolTypeOK
  HoldsNewest
  InOrder
  ReframerTypeOK
  CopiesFit
  PcmIsConserved
  EncodesPcmInOrder
  BlockingQueueTypeOK
  QueueIsFifo
  HolderIsTruthful
  FindsEveryFrame
  FramesAreApart
PROPERTIES
  TakenInOrder
  EverythingGetsThrough
