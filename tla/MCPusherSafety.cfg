\* Three connections compete for two descriptors, one MP3 and one AAC: accept()
\* can fail, and a descriptor is reused after its client closed.
CONSTANTS
  p1 = p1
  p2 = p2
  p3 = p3
  Peers = {p1, p2, p3}
  ClientFds = {8, 9}
  ServFd = 7
  SendWindow = 1
  SigPipeIgnored = FALSE
  AudioType = {"mp3", "aac"}
  QueueLength = 1
  MaxFrames <- MCMaxFrames
  Round = 1
  InitialExiting = {TRUE, FALSE}
  MaxIterations = 1
  Stalled = {}
SYMMETRY MCSymmetry
SPECIFICATION Spec
INVARIANTS
  TypeOK
  TerminalsAreConnected
  WritesReachOwnPeer
  RegistrationSucceeds
  OpenIsServed
  StreamsAreOrdered
