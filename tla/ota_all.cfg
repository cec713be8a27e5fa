\* Every task, every obligation kept, two fwup processes, up to the running application.
SPECIFICATION StartupSpec
CONSTANTS
  j1 = j1
  j2 = j2
  factory = factory
  update = update
  broken = broken
  Jobs <- TwoJobs
  Images <- ThreeImages
  Good <- GoodImages
  Factory <- factory
  NoImage = NoImage
  Tasks <- TaskNames
  Obligations <- ObligationNames
  Fs <- FsChanges
  Blank = Blank
  Unset = Unset
SYMMETRY Symmetry
INVARIANTS TypeOK StartupTypeOK FailoverSafe NeverPanics ActiveMetadata DataAvailable
PROPERTIES WritesInactiveOnly DataSurvives
