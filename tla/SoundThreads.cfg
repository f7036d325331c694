SPECIFICATION FairSpec
INVARIANTS
  CallbacksDoNotOverlap
PROPERTIES
  FramesEnd
  JoinsReturn
