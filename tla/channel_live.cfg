SPECIFICATION FairSpec
CONSTANTS
  Layers = {g1}
  Extents = {e1}
  NoExtent = e0
  Tiers = {t1, t2}
  BadTier = t0
  FirstTier = t1
  SeqMod = 3
  RebuildsForTier = TRUE
  Once = FALSE
  MaxFrames = 1
  MaxFaults = 2
PROPERTIES PresentReturns RequestsSettle QuitObeyed
