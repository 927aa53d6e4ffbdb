SPECIFICATION Spec
CONSTANTS
  HalfRange = 10
  DriveTime = 3
  InterphaseTime = 2
  NoMediaGrace = 2
  SuccessSettle = 2
  MaxReturnTimeouts = 3
  ServiceGap = 2
  RecoveryTime = 4
  Profiles = {"35h", "36h", "38h"}
INVARIANTS NoRecoveryUnderPower TravelBounded FailsAfterAllRetries
PROPERTIES ControlStillWhilePowered CompletionNeedsTravel ImplementsContract CycleEnds
