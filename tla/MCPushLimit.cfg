\* Every push this process causes, clicked for or sent on password submission.
CONSTANTS
  Number = {n1, n2}
  NoNumber = NoNumber
  MaxPush = 2
  Deadline = 5
  StuckLimit = 1
  NoHeadless = FALSE
  LostAnswers = FALSE
SPECIFICATION Spec
INVARIANT PushLimit
