SPECIFICATION Spec
CONSTANTS
  MaxCallbacks = 1
  CountWrap = 2
PROPERTIES AcceptedEjectMoves
