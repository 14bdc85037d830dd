\* Period 0 (no pace), short periods and one that is too long for msleep; six
\* rounds bring the counter to its limit, and the product exceeds it in the
\* fourth round of period 2 and in the third of period 3.
CONSTANTS
  Periods = {0, 2, 3, 7}
  LongMax = 6
  SleepLimit = 5
  Jumps = {2}
  MaxLag = 3
SPECIFICATION PaceSpec
INVARIANTS OnSchedule
PROPERTIES SleepBounded
