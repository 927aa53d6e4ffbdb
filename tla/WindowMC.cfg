SPECIFICATION Spec
CONSTANTS
  Half = 2
  RingSize = 3
  Entry = 5
  MaxEntries = 2
  Lengths <- MCLengths
  Classes = {"bot", "uas"}
  Commands = 3
INVARIANTS DataInOrder
PROPERTIES TransferEnds
CHECK_DEADLOCK FALSE
