\* Enough descriptors for every client, so accept() does not fail.
CONSTANTS
  p1 = p1
  p2 = p2
  p3 = p3
  Peers = {p1}
  ClientFds = {8}
  ServFd = 7
  SendWindow = 1
  SigPipeIgnored = TRUE
  AudioType = {"mp3", "aac"}
  QueueLength = 1
  MaxFrames <- MCMaxFrames
  Round = 1
  InitialExiting = {TRUE, FALSE}
  MaxIterations = 1
  Stalled = {}
SPECIFICATION Spec
INVARIANT
  ServesUntilDestroyed
