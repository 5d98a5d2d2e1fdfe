\* A client closes; SIGPIPE has its default disposition.
CONSTANTS
  p1 = p1
  p2 = p2
  p3 = p3
  Peers = {p1}
  ClientFds = {8}
  ServFd = 7
  SendWindow = 1
  SigPipeIgnored = FALSE
  AudioType = {"mp3", "aac"}
  QueueLength = 1
  MaxFrames <- MCMaxFrames
  Round = 1
  InitialExiting = {FALSE}
  MaxIterations = 1
  Stalled = {}
SPECIFICATION Spec
INVARIANT
  ClosedPeerIsOnlyReported
