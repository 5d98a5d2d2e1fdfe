\* Two AAC clients: p1 stops reading, p2 waits for the frame that p1 blocks.
CONSTANTS
  p1 = p1
  p2 = p2
  p3 = p3
  Peers = {p1, p2}
  ClientFds = {9, 11}
  ServFd = 7
  SendWindow = 1
  SigPipeIgnored = FALSE
  AudioType = {"mp3", "aac"}
  QueueLength = 1
  MaxFrames <- MCMaxFrames
  Round = 1
  InitialExiting = {FALSE}
  MaxIterations = 1
  Stalled = {p1}
SPECIFICATION LiveSpec
PROPERTY
  SlowTerminalDelaysOnlyItself
