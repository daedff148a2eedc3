SPECIFICATION Spec
CONSTANTS
  Layers = {g1, g2}
  NumSlots = 2
  SocketHeld = TRUE
  RebuildsForTier = TRUE
  MaxOffers = 3
  MaxPairs = 2
  MaxFaults = 1
SYMMETRY Symmetry
INVARIANTS FrameWhereNamed NoFrameOnPending
PROPERTIES ImplementsExchange
