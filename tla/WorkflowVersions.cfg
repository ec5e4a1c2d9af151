CONSTANTS
  p1 = p1
  p2 = p2
  good = good
  better = better
  bad = bad
  Page = {p1, p2}
  Definition = {good, better, bad}
  Invalid = {bad}
  Default = good
  MaxVersions = 3
  MaxClicks = 6
SPECIFICATION Spec
INVARIANTS
  VersionsNumbered
  RunsWhatWasShown
  
PROPERTIES
  EditsGiveWayToNews
  
CHECK_DEADLOCK FALSE
