CONSTANTS
  v1 = v1
  c1 = c1
  c2 = c2
  c3 = c3
  escape = escape
  Villager = {v1}
  Command = {c1, c2, c3}
  Owner <- OneLaneOwner
  Topic <- OneLaneTopic
  Spawns = {}
  Despawns = {}
  Reflex = {escape}
  MaxFaults = 1
SPECIFICATION Spec
INVARIANT AtMostOneOutcome
CHECK_DEADLOCK FALSE
