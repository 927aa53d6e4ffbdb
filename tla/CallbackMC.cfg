SPECIFICATION Spec
CONSTANT Depth = 4
INVARIANTS CompletionIsLast
PROPERTIES EveryCommandEnds ImplementsFifo
