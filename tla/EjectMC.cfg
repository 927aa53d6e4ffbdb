SPECIFICATION Spec
CONSTANTS
  MaxCallbacks = 2
  CountWrap = 2
INVARIANTS NoMediaInMotion DiscoveryOwnsPort UnloadEndsWithCartridge
PROPERTIES ImplementsContract EjectMovesWhenAnswered
