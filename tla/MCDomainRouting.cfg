\* Every pair of lists over four patterns, every host of up to three labels.
CONSTANTS
  Label <- MCLabel
  Lower <- MCLower
  Star = "*"
  Pattern <- MCPattern
  Host <- MCHost
SPECIFICATION Spec
INVARIANTS PacAgrees PortalStaysDirect LabelTellsRoute
