SPECIFICATION FairSpec
CONSTANTS
  Durations <- SliceLengths
  BootDuration = 2
  Lag = 1
  Overrun = 1
  MaxDummies = 2
  MaxSlices = 3
  MaxFaults = 1
INVARIANTS TypeOK OneSlice LeftoversHarmless
PROPERTIES ImplementsTimeSlice EverySliceEnds
