CONSTANTS
  p1 = p1
  p2 = p2
  red = red
  blue = blue
  ansel = ansel
  h1 = h1
  h2 = h2
  Partition = {p1, p2}
  Poisoned = {p1}
  PageLimit = 2
  QueueLimit = 2
  MaxFaults = 1
  PartitionOf <- MCPartitionOf
  Team = {red, blue}
  TeamOf <- MCTeamOf
  Outcome <- MCOutcome
  Harness = {h1, h2}
  MaxMilestones = 1
  MaxPages = 2
  Script <- MCScript
SPECIFICATION Spec
SYMMETRY MCSymmetry
INVARIANTS
  TypeOK
  NoFactSkipped
  EndedOncePerProcess
  StartsOverNothingKnown
  AbortsOnlyTheOpen
  SliceIsCoherent
  MindIsCurrent
  BoardIsCurrent
CHECK_DEADLOCK FALSE
