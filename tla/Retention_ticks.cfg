SPECIFICATION FairRetentionSpec
CONSTANTS
  o1 = o1
  o2 = o2
  notDeleted = notDeleted
  Objects = {o1, o2}
  DayLen = 4
  UnitSecs <- MCUnitSecs
  Values <- MCValues
  Saturation = 100
  Longest = 50
  NotDeleted = notDeleted
  MaxTime = 9
PROPERTIES LessThanADayEarly DueIsPurged
