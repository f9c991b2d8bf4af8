---------------------------- MODULE MCRaceSystem ----------------------------
(* Two attempts on two partitions, one of which begins with a poison record. *)
(* A craft that smelts nothing and takes looted ingots is the shortest win.  *)
EXTENDS RaceSystem, TLC

CONSTANTS p1, p2, red, blue, ansel, h1, h2

MCSymmetry == Permutations(Harness)

MCPartitionOf == <<p1, p1, p1>>

MCTeamOf == ansel :> blue

MCOutcome ==
  { [type |-> "ActionCompleted", villager |-> ansel, action |-> "craft", item |-> "iron_pickaxe",
     crafted |-> 1, smelted |-> 0, furnacePlaced |-> FALSE, furnaceUsed |-> FALSE] }

Starts(n, a) == [n |-> n, type |-> "AttemptStarted", attempt |-> a]
Crossed(n, a, rung) == [n |-> n, type |-> "ProgressionMilestone", attempt |-> a, team |-> blue, rung |-> rung]
Ends(n, a) == [n |-> n, type |-> "AttemptEnded", attempt |-> a, outcome |-> "stalled", by |-> 1]

\* A finished attempt and a running one; an orphan that is closed late; both on
\* one partition.
MCScript ==
  { p1 :> <<Starts(1, 1), Crossed(2, 1, "first_coal"), Ends(3, 1)>> @@
    p2 :> <<Starts(4, 2), Crossed(5, 2, "first_coal")>>,
    p1 :> <<Starts(1, 1), Ends(4, 1)>> @@ p2 :> <<Starts(2, 2), Crossed(3, 2, "first_coal"), Ends(5, 2)>>,
    p1 :> <<Starts(1, 1), Ends(2, 1), Starts(3, 2), Crossed(4, 2, "first_coal")>> @@ p2 :> <<>> }

\* A page taken at once is the page taken row by row.
Rows == {Starts(1, 1), Crossed(2, 1, "first_coal"), Starts(3, 2), Crossed(4, 1, "iron_pickaxe"),
         Crossed(5, 2, "first_coal"), Ends(6, 1), Crossed(7, 2, "iron_pickaxe"), Ends(8, 2)}

ASSUME \A page \in SUBSET Rows : \A race \in {NoRace} \union {Crossing(Fresh(a), Crossed(1, a, "first_ingot")) : a \in 1..2} :
  /\ MindReads(race, page) = FoldLeft(MindHears, race, InOrder(page))
  /\ BoardReads(race, page) = FoldLeft(BoardIngests, race, InOrder(page))
=============================================================================
