SPECIFICATION Spec
CONSTANTS
  Consumers = {"first", "second"}
  Dependents <- MCDependents
  Gating = {"first", "second"}
  BufferSize = 2
  MaxBatch = 2
  MaxSequence = 2
  MaxHalts = 1
INVARIANTS
  SequencerTypeOK
  HandledEventStable
PROPERTIES
  EveryEventHandled
  HaltStops
CHECK_DEADLOCK FALSE
