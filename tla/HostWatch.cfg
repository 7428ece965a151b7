SPECIFICATION Spec
CONSTANTS
  Capacity = 4
  MaxEvents = 2
INVARIANTS TypeOK AlarmsNeedStalls LatenessIsCounted ResetZeroesBeats
