SPECIFICATION PeriodsSpec
CONSTANTS
  Slots = {1, 2}
  Limit = 2
  MaxMonths = 2
INVARIANT MonthlyVolumeIsServed
