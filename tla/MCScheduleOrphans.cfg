SPECIFICATION ScheduleSpec
CONSTANTS
  MaxPosition = 1
  MaxProcesses = 1
  MaxBeats = 0
  MaxStarts = 2
INVARIANTS
  OrphansCensored
CHECK_DEADLOCK FALSE
