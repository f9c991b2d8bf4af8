------------------------ MODULE MCGovernmentService ------------------------
(* A small instance of GovernmentService, a contested election: both        *)
(* villagers stand, ann votes by command, and ben votes both over REST and  *)
(* by command.                                                              *)
EXTENDS GovernmentService

CONSTANTS ann, ben, e1, declareA, voteA, voteB, lost, desk

ContestedTopic == [v \in {ann, ben} |-> IF v = ann THEN <<declareA, lost, voteA>> ELSE <<voteB>>]

Ask(action, v, e, candidate) ==
  [action |-> action, villager |-> v, election |-> e, candidate |-> candidate]

ContestedRequest ==
  declareA :> Ask("declare_candidacy", ann, e1, None) @@ voteA :> Ask("vote", ann, e1, ann)
    @@ lost :> Ask("poison", ann, None, None) @@ voteB :> Ask("vote", ben, e1, ben)

Cast(e, voter, candidate) == [election |-> e, voter |-> voter, candidate |-> candidate]
ContestedCall == desk :> Cast(e1, ben, ann)

Window(delay, seeds) == [delay |-> delay, nominating |-> 1, voting |-> 1, seeds |-> seeds]
ContestedOpening == e1 :> Window(0, <<ben>>)
=============================================================================
