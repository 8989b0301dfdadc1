SPECIFICATION FairSpec
CONSTANTS
  ServiceTimes = {1, 3}
  PropDelay = 2
  JitterMin = 1
  JitterMax = 3
  MayDrop = TRUE
  MaxArrivals = 4
  MaxClock = 2
INVARIANTS
  TypeOK OvertakesWithinJitter
PROPERTIES
  KeepsSchedule
\* All the frames have arrived and left.
CHECK_DEADLOCK FALSE
