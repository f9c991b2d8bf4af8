--------------------------- MODULE VillagerSystem ---------------------------
(***************************************************************************)
(* The mind and the hands of a villager, in scenes that share no state:    *)
(* when it ticks, what a tick does, what the model may cost, what the      *)
(* village is known to be about, what becomes of memories; and how it      *)
(* gathers, hunts, crafts, stores, plans, practises and stays connected.   *)
(***************************************************************************)
EXTENDS TickScheduler, TickGraph, TokenBudget, CivicState, Reflection,
        Gathering, Hunting, Workshop, Stores, SkillLibrary, Curriculum, Sessions

CONSTANT Scenes  \* the scenes that are played

Mind  == {"cadence", "tick", "wallet", "village", "stream"}
Hands == {"trip", "hunt", "bench", "chest", "skills", "school", "session"}

ASSUME ScenesAssumption == Scenes \subseteq Mind \cup Hands

VARIABLE scene

vars == <<schedulerVars, graphVars, budgetVars, civicVars, streamVars,
          gatherVars, huntVars, workshopVars, storeVars, skillVars, curriculumVars, sessionVars, scene>>

\* A scene that is not played stands at one of its beginnings.
Init ==
  /\ scene \in Scenes
  /\ SchedulerFresh /\ GraphInit /\ BudgetInit /\ CivicInit /\ StreamInit
  /\ GatherInit     /\ (scene # "trip" => spot = CHOOSE s \in Spot : TRUE)
  /\ HuntInit       /\ (scene # "hunt" => at = [p \in Prey |-> "far"] /\ meat = 0)
  /\ WorkshopInit   /\ (scene # "bench" => pack = (CHOOSE p \in Packs : TRUE) /\ built = {})
  /\ StoreInit      /\ (scene # "chest" => chest = NoneOf /\ packs = [b \in Body |-> NoneOf])
  /\ SkillsInit
  /\ CurriculumInit
  /\ SessionsInit   /\ (scene # "session" => ~roster)

Play ==
  \/ scene = "cadence" /\ SchedulerNext
  \/ scene = "tick"    /\ GraphNext
  \/ scene = "wallet"  /\ BudgetNext
  \/ scene = "village" /\ CivicNext
  \/ scene = "stream"  /\ StreamNext
  \/ scene = "trip"    /\ GatherNext
  \/ scene = "hunt"    /\ HuntNext
  \/ scene = "bench"   /\ WorkshopNext
  \/ scene = "chest"   /\ StoreNext
  \/ scene = "skills"  /\ SkillsNext
  \/ scene = "school"  /\ CurriculumNext
  \/ scene = "session" /\ SessionsNext

Elsewhere ==
  /\ scene # "cadence" => UNCHANGED schedulerVars
  /\ scene # "tick"    => UNCHANGED graphVars
  /\ scene # "wallet"  => UNCHANGED budgetVars
  /\ scene # "village" => UNCHANGED civicVars
  /\ scene # "stream"  => UNCHANGED streamVars
  /\ scene # "trip"    => UNCHANGED gatherVars
  /\ scene # "hunt"    => UNCHANGED huntVars
  /\ scene # "bench"   => UNCHANGED workshopVars
  /\ scene # "chest"   => UNCHANGED storeVars
  /\ scene # "skills"  => UNCHANGED skillVars
  /\ scene # "school"  => UNCHANGED curriculumVars
  /\ scene # "session" => UNCHANGED sessionVars

Next == Play /\ Elsewhere /\ UNCHANGED scene

Spec == Init /\ [][Next]_vars

-----------------------------------------------------------------------------
\* The types of the part that is played: the others do not change.
TypeOK ==
  /\ scene = "cadence" => SchedulerTypeOK
  /\ scene = "tick"    => GraphTypeOK
  /\ scene = "wallet"  => BudgetTypeOK
  /\ scene = "village" => CivicTypeOK
  /\ scene = "stream"  => StreamTypeOK
  /\ scene = "trip"    => GatherTypeOK
  /\ scene = "hunt"    => HuntTypeOK
  /\ scene = "bench"   => WorkshopTypeOK
  /\ scene = "chest"   => StoreTypeOK
  /\ scene = "skills"  => SkillsTypeOK
  /\ scene = "school"  => CurriculumTypeOK
  /\ scene = "session" => SessionsTypeOK

\* What a trip or a chase did not get the better of is left alone while its
\* mark lives, whatever ended the attempt: a failure, a death or the watchdog.
DefeatIsRemembered == ClusterLeftAlone /\ EscapeeLeftAlone

\* What a villager says its hands did is what they did: at a chest, and in the
\* skills that plan over the primitives.
HandsKeepTheirWord == MovesWhatItTells /\ SkillsKeepTheirWord
=============================================================================
