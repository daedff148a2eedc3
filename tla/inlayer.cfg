SPECIFICATION DeviceSpec
CONSTANTS
  s1 = s1
  s2 = s2
  soft = soft
  sharp = sharp
  Swapchains = {s1, s2}
  Extents <- MCExtents
  Controls <- MCControls
  KMaxPasses = 2
  NoFrame = NoFrame
  Rejected = Rejected
  FramesOf <- MCFramesOf
  MaxPresents = 4
  Devices <- MCDevices
  Requests <- MCRequests
  With = With
  Without = Without
  MaxUploads = 1
INVARIANTS RequestsHold NothingFreedInUse RecordsWhatIsBuilt HistoryFits WaitsAreOnce BuildSubmitsAlone BuilderCanFinish
