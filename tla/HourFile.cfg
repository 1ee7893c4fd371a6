SPECIFICATION HourFileSpec
CONSTANTS
  Kinds <- MCKinds
  MaxHour = 2
  MaxRows = 2
  MaxCrashes = 2
  MaxStops = 1
  MaxFailures = 1
INVARIANTS CopyKeepsOrphan
PROPERTIES OnlyCrashLoses
CHECK_DEADLOCK FALSE
