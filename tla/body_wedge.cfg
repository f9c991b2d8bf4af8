CONSTANTS
  HitsToOpen = 2
  ClearPasses = 2
  HelplessAfter = 2
  MaxDeaths = 1
  MaxDrops = 1
  MaxCommands = 2
  HandEquipSettles = FALSE
SPECIFICATION FairSpec
PROPERTY ManeuverReleases
