\* Two processes run every pair of commands, again and again.
CONSTANTS
  Proc = {p1, p2}
  a1 = a1
  a2 = a2
  Account = {a1, a2}
  NoAccount = NoAccount
  EnvPairs <- MCEnvPairs
  FilePairs <- MCFilePairs
SPECIFICATION Spec
SYMMETRY MCSymmetry
INVARIANTS KeyringPaired OneSource LoginFindsCredentials
PROPERTIES SuccessIsDone DeauthenticateErases
