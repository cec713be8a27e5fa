\* Over-the-air updates and prevent-revert under repeated power loss: against the
\* two-phase update, and their progress up to the running application.
SPECIFICATION FairSpec
CONSTANTS
  j1 = j1
  j2 = j2
  factory = factory
  update = update
  broken = broken
  Jobs <- OneJob
  Images <- ThreeImages
  Good <- GoodImages
  Factory <- factory
  NoImage = NoImage
  Tasks <- TwoPhaseTasks
  Obligations <- TwoPhaseObligations
  Fs <- FsChanges
  Blank = Blank
  Unset = Unset
PROPERTIES ImplementsTwoPhaseUpdate TrialResolved ServiceResumes
