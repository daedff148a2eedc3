SPECIFICATION Spec
CONSTANTS
  Extents = {1, 2}
  Controls = {"usual"}
  KMaxPasses = 2
  NoFrame = NoFrame
  Devices = {0, 1}
  Index <- MCIndex
  NumSlots = 2
  Frames <- MCFrames
  Generations = {1, 2, 3}
  TierExtent <- MCTierExtent
  Usual = "usual"
  MaxFrames = 2
  MaxOffers = 3
INVARIANTS OwnedOnce FrameFits NothingFreedInUse
