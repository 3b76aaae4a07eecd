SPECIFICATION FairScheduleSpec
CONSTANTS
  MaxPosition = 2
  MaxProcesses = 2
  MaxBeats = 0
  MaxStarts = 2
INVARIANTS
  RecordedIsQuiet
  RecordedSuccessCounts
PROPERTIES
  InterruptedIsFinal
  BeginsOnceAndInTurn
  ScheduleEnds
CHECK_DEADLOCK FALSE
