SPECIFICATION FairSpec
CONSTANTS
  Controllers = {c1, c2}
  MaxGenerations = 3
  MaxCapture = 2
  MaxFaults = 2
INVARIANTS PairsMatchFrames OneRunPerRequest NoPairLeftWaiting
PROPERTY CaptureEnds
