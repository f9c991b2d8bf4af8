CONSTANTS
  ann = ann
  ben = ben
  e1 = e1
  declareA = declareA
  voteA = voteA
  voteB = voteB
  lost = lost
  desk = desk
  None = None
  Villager = {ann, ben}
  Election = {e1}
  Command = {declareA, voteA, lost, voteB}
  Caller = {desk}
  Topic <- ContestedTopic
  Request <- ContestedRequest
  Call <- ContestedCall
  Opening <- ContestedOpening
  Horizon = 2
  MaxFaults = 1
SPECIFICATION FairSpec
PROPERTY EveryVoteAnnounced
CHECK_DEADLOCK FALSE
