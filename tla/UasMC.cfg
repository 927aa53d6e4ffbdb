SPECIFICATION Spec
CONSTANTS
  Slots = 2
  Depth = 2
  ListSize = 3
  Tags = {1, 2}
  Offers <- MCOffers
  Media <- MCMedia
  Builds = {"reloaded"}
  Faults = {"plain"}
  Backlog = 1
  Hasty = FALSE
INVARIANTS GoodMeansDone NotMixed OneBufferEach
VIEW MCView
