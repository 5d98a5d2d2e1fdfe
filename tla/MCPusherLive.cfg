\* Two clients that share each AAC frame (both descriptors are odd) and always go on
\* reading or close.  A write after a RST fails without ending the process, so that
\* what comes after it is seen as well.
CONSTANTS
  p1 = p1
  p2 = p2
  p3 = p3
  Peers = {p1, p2}
  ClientFds = {9, 11}
  ServFd = 7
  SendWindow = 1
  SigPipeIgnored = TRUE
  AudioType = {"mp3", "aac"}
  QueueLength = 1
  MaxFrames <- MCMaxFrames
  Round = 1
  InitialExiting = {FALSE}
  MaxIterations = 1
  Stalled = {}
SPECIFICATION ServiceSpec
PROPERTIES
  ImplementsBroadcast
  ClosedIsTakenDown
