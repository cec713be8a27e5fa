\* An update to images with another file system; does the first boot reformat the partition?
SPECIFICATION StartupSpec
CONSTANTS
  j1 = j1
  j2 = j2
  factory = factory
  update = update
  broken = broken
  Jobs <- TwoJobs
  Images <- ThreeImages
  Good <- GoodImages
  Factory <- factory
  NoImage = NoImage
  Tasks <- TaskNames
  Obligations <- ObligationNames
  Fs <- FsChanges
  Blank = Blank
  Unset = Unset
PROPERTY ReformattedAtBoot
