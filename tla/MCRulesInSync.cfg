\* Wildcard patterns, which pac.rs accepts.
CONSTANTS
  Label <- MCLabel
  Lower <- MCLower
  Star = "*"
  Pattern <- WildPattern
  Host <- MCHost
SPECIFICATION Spec
INVARIANT RulesInSync
