\* As MCUnits.cfg, and frames of every sampling frequency.
CONSTANTS
  AudioType = {"mp3", "aac"}
  MaxFrames <- MCMaxFrames
  Round = 1
  MaxOffered = 7
  AacFrame = 8
  MaxDecodes = 18
  Producers = {"p1", "p2", "ov"}
  Overwriters = {"ov"}
  Consumers = {"c1", "c2"}
  Capacities = {1, 2}
  MaxPuts <- MCMaxPuts
  MaxSpurious = 1
  Junks <- MCJunks
  ThirdBytes = {144, 146, 148, 240}
  BodyBytes = {0, 255}
  MaxFileFrames = 2
  Cuts = {0, 90}
  MaxTurns = 3
SPECIFICATION Spec
INVARIANT
  FindsEveryFrequency
