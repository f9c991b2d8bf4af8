CONSTANTS
  v1 = v1
  c1 = c1
  c2 = c2
  c3 = c3
  escape = escape
  Villager = {v1}
  Command = {c1, c2, c3}
  Owner <- OneLaneOwner
  Topic <- OneLaneTopic
  Spawns = {c1}
  Despawns = {c3}
  Reflex = {escape}
  MaxFaults = 2
SPECIFICATION FairSpec
INVARIANTS TypeOK SeamHonest LatestIntentWins OneOutcomeWithoutFaults
PROPERTIES ImplementsContract LaneDrains
CHECK_DEADLOCK FALSE
