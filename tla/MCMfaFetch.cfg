\* Login sessions that share one budget of two pushes.
CONSTANTS
  Number = {n1, n2}
  NoNumber = NoNumber
  MaxPush = 2
  Deadline = 5
  StuckLimit = 1
  NoHeadless = FALSE
  LostAnswers = FALSE
SPECIFICATION FairSpec
INVARIANTS ClicksCounted NotificationCurrent
PROPERTIES NoClickWhilePending ImplementsContract SessionAdvances SessionEnds
