\* A revert whose caller does not know what the other slot holds.
SPECIFICATION Spec
CONSTANTS
  j1 = j1
  j2 = j2
  factory = factory
  update = update
  broken = broken
  Jobs <- OneJob
  Images <- ThreeImages
  Good <- GoodImages
  Factory <- factory
  NoImage = NoImage
  Tasks <- TaskNames
  Obligations <- AnyKnownGood
PROPERTY RevertGoesToValidated
