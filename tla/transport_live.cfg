SPECIFICATION FairSpec
CONSTANTS
  Layers = {g1, g2}
  NumSlots = 1
  SocketHeld = FALSE
  RebuildsForTier = TRUE
  MaxOffers = 2
  MaxPairs = 1
  MaxFaults = 1
PROPERTIES MissHeals
