SPECIFICATION Spec
CONSTANTS
  Requests <- MCRequests
  Speeds = {"super"}
  Length <- MCLength
  MaxEvents = 3
  MaxUpsets = 2
  Clients = {131}
  Halts = {FALSE}
  Hasty = FALSE
INVARIANTS CompletionIsOfTransfer
PROPERTIES HandledAfterReset RequestIsAnswered
