SPECIFICATION Spec
CONSTANTS
  Units = 2
  Backlog = 1
CONSTRAINT UntilStale
INVARIANTS PhasesAgree SurpriseIsStale PassedMeansDone ResidueTrue
PROPERTIES WholeCommandEnds
