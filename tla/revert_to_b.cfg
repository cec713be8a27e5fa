\* Reverting from slot a to validated firmware in slot b.
SPECIFICATION Spec
CONSTANTS
  j1 = j1
  j2 = j2
  factory = factory
  update = update
  broken = broken
  Jobs <- OneJob
  Images <- ThreeImages
  Good <- GoodImages
  Factory <- factory
  NoImage = NoImage
  Tasks <- NoPreventRevert
  Obligations <- ObligationNames
INVARIANT PreviousSlotRevertible
