SPECIFICATION Spec
CONSTANTS
  rdx = rdx
  bad = bad
  plain = plain
  packet = packet
  flaky = flaky
  broken = broken
  Disks = {rdx, bad, plain, packet, flaky, broken}
  Answer <- MCAnswer
  MaxInsertions = 3
  MaxErrors = 2
INVARIANTS HostSeesTheBay PortListens OneRejectedAttempt
 
