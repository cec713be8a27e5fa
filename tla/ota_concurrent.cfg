\* Two fwup processes with no lock between them.
SPECIFICATION Spec
CONSTANTS
  j1 = j1
  j2 = j2
  factory = factory
  update = update
  broken = broken
  Jobs <- TwoJobs
  Images <- ThreeImages
  Good <- GoodImages
  Factory <- factory
  NoImage = NoImage
  Tasks <- TaskNames
  Obligations <- ConcurrentObligations
SYMMETRY Symmetry
PROPERTIES TrialBootedOnce RunningSlotKept
