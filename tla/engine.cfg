SPECIFICATION FramesSpec
CONSTANTS
  Settings <- MCSettings
  MaxPasses = 2
  Imports = {0}
  MaxFrames = 3
  Sources <- MCSources
  SourceSamples <- MCSourceSamples
  Answers <- MCAnswers
  Served <- MCServed
INVARIANTS HistoryIsLastAnswer AnswerIsOwn NoMisuse HalvesAreNearest
PROPERTIES NonfiniteIsRejected PictureFits
