SPECIFICATION Spec
CONSTANTS
  Last = 2
  NormalTicks = 1
  FastPhases = 2
INVARIANT RunsWhatIsConfirmed
PROPERTY Reattached
