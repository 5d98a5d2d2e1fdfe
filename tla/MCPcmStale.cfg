\* The first Decode() only finds the format of the stream.
CONSTANTS
  AacFrame = 8
  MaxDecodes = 18
SPECIFICATION ReframerSpec
INVARIANT
  OnlyDecodedPcmIsEncoded
