\* All images with one file system; is the data partition formatted when it has to be?
SPECIFICATION StartupSpec
CONSTANTS
  j1 = j1
  j2 = j2
  factory = factory
  update = update
  broken = broken
  Jobs <- TwoJobs
  Images <- ThreeImages
  Good <- GoodImages
  Factory <- factory
  NoImage = NoImage
  Tasks <- TaskNames
  Obligations <- ObligationNames
  Fs <- FsStays
  Blank = Blank
  Unset = Unset
INVARIANT AutoFormatted
