SPECIFICATION Spec
CONSTANTS
  Layers = {g1, g2}
  Extents = {e1, e2}
  NoExtent = e0
  Tiers = {t1}
  BadTier = t0
  FirstTier = t1
  SeqMod = 5
  RebuildsForTier = FALSE
  Once = FALSE
  MaxFrames = 3
  MaxFaults = 1
SYMMETRY ShapeSymmetry
INVARIANTS SlotExclusion ComposedIsOwn InferenceUndisturbed HonestState
PROPERTIES ImplementsExchange
