\* The frame loop and the shutdown against a client that may stop reading
\* without closing.
CONSTANTS
  p1 = p1
  p2 = p2
  p3 = p3
  Peers = {p1}
  ClientFds = {9}
  ServFd = 7
  SendWindow = 1
  SigPipeIgnored = FALSE
  AudioType = {"mp3", "aac"}
  QueueLength = 1
  MaxFrames <- MCMaxFrames
  Round = 1
  InitialExiting = {FALSE}
  MaxIterations = 2
  Stalled = {p1}
SPECIFICATION LiveSpec
PROPERTIES
  ProducerNeverBlocks
  ShutdownCompletes
