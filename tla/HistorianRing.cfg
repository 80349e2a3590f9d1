SPECIFICATION HistorianSpec
CONSTANTS
  Capacity = 3
  PendingMax = 2
  MaxAge = 2
  FlushInterval = 2
  TimeMod = 100
  MaxTime = 6
  MaxWrites = 7
  ClockMod = 5
  CrashInFlush = FALSE
  AppendResults = {TRUE}
INVARIANTS
  HistorianTypeOK
  RingHoldsRecent
PROPERTIES
  EvictsOnlyOld
