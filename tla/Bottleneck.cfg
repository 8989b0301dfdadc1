SPECIFICATION FairSpec
CONSTANTS
  Sizes = {1, 2, 3}
  TicksPerByte = 2
  PropDelay = 3
  QueueCapacity = 5
  DropEveryNth = 4
  MaxArrivals = 7
  MaxClock = 2
INVARIANTS
  TypeOK QueueBoundsDelay FrontIsImminent
PROPERTIES
  KeepsSchedule
\* All the frames have arrived and left.
CHECK_DEADLOCK FALSE
