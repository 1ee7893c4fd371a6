SPECIFICATION FleetSpec
CONSTANTS
  HaltMax = 2
  CyclesPerSession = 2
  ResetOffset = 0
  Slots <- MCSlots
  Period <- MCPeriod
  Commands <- MCCommands
  RunFlags <- MCRunFlags
  StartBalance = 3
  Balances = {2, 4}
  MaxCycle = 2
  MaxCommands = 1
  MaxRestarts = 1
INVARIANTS DeepDrawdownStopsFleet
PROPERTIES OnlyResumeLifts
CHECK_DEADLOCK FALSE
