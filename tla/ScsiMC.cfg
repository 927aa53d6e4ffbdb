SPECIFICATION Spec
CONSTANTS
  Media <- MCMedia
  Short = 2
  Window = 3
  Long = 4
  High = 8
  RangeMax = 2
  Entries = 2
  ListMax = 2
  Max32 = 3
  Addresses = {0, 3, 4, 9}
  Lengths = {0, 1, 2, 3, 4}
  Hosts = {0, 1, 3}
INVARIANTS BlocksAsRequested ProtectedUnwritten AdvertisedIsAccepted
PROPERTIES TrimmedAsNamed
CHECK_DEADLOCK TRUE
