\* Two scenes, one of them without detections.
SPECIFICATION FairSpec
CONSTANTS
  Scenes <- SomeScenes
  Empty = Empty
  Nil = Nil
INVARIANTS TypeOK PageConsistent NobodyWaitsInVain
PROPERTIES PageFollowsScene PictureFollowsScene
