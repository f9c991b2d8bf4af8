------------------------ MODULE VillagerSystemProofs ------------------------
(* What the proofs of the parts say of the villager's specification: a scene *)
(* takes the steps of its own part, and the other parts stay.                *)
EXTENDS VillagerSystem, HandsProofs, MindProofs

LEMMA SessionsPart ==
  /\ Init => SessionsInit
  /\ [Next]_vars => [SessionsNext]_sessionVars
<1>1. Init => SessionsInit
  BY DEF Init
<1>2. ASSUME Next PROVE [SessionsNext]_sessionVars
  <2>1. CASE scene = "session"
    BY <1>2, <2>1 DEF Next, Play
  <2>2. CASE scene # "session"
    BY <1>2, <2>2 DEF Next, Elsewhere
  <2> QED
    BY <2>1, <2>2
<1>3. ASSUME UNCHANGED vars PROVE UNCHANGED sessionVars
  BY <1>3 DEF vars
<1> QED
  BY <1>1, <1>2, <1>3

(* A session that the registry has despawned never claims the villager's     *)
(* name again, whatever its timers and connections still do                  *)
(* (BotSession.despawn, "wins over auto-reconnect").                         *)
THEOREM DespawnsAreFinal == Spec => []DespawnWins
  BY SessionsPart, DespawnAlwaysWins, PTL DEF Spec

LEMMA TripPart ==
  /\ Init => GatherInit
  /\ [Next]_vars => [GatherNext]_gatherVars
<1>1. Init => GatherInit
  BY DEF Init
<1>2. ASSUME Next PROVE [GatherNext]_gatherVars
  <2>1. CASE scene = "trip"
    BY <1>2, <2>1 DEF Next, Play
  <2>2. CASE scene # "trip"
    BY <1>2, <2>2 DEF Next, Elsewhere
  <2> QED
    BY <2>1, <2>2
<1>3. ASSUME UNCHANGED vars PROVE UNCHANGED gatherVars
  BY <1>3 DEF vars
<1> QED
  BY <1>1, <1>2, <1>3

LEMMA HuntPart ==
  /\ Init => HuntInit
  /\ [Next]_vars => [HuntNext]_huntVars
<1>1. Init => HuntInit
  BY DEF Init
<1>2. ASSUME Next PROVE [HuntNext]_huntVars
  <2>1. CASE scene = "hunt"
    BY <1>2, <2>1 DEF Next, Play
  <2>2. CASE scene # "hunt"
    BY <1>2, <2>2 DEF Next, Elsewhere
  <2> QED
    BY <2>1, <2>2
<1>3. ASSUME UNCHANGED vars PROVE UNCHANGED huntVars
  BY <1>3 DEF vars
<1> QED
  BY <1>1, <1>2, <1>3

(* What a trip or a chase did not get the better of is left alone while its  *)
(* mark lives: gatherBlacklist and huntBlacklist do what they are for.       *)
THEOREM VillagerRemembersDefeat == Spec => []DefeatIsRemembered
<1>1. Spec => []ClusterLeftAlone
  BY TripPart, ClusterAlwaysLeftAlone, PTL DEF Spec
<1>2. Spec => []EscapeeLeftAlone
  BY HuntPart, EscapeeAlwaysLeftAlone, PTL DEF Spec
<1> QED
  BY <1>1, <1>2, PTL DEF DefeatIsRemembered

LEMMA WalletPart ==
  /\ Init => BudgetInit
  /\ [Next]_vars => [BudgetNext]_budgetVars
<1>1. Init => BudgetInit
  BY DEF Init
<1>2. ASSUME Next PROVE [BudgetNext]_budgetVars
  <2>1. CASE scene = "wallet"
    BY <1>2, <2>1 DEF Next, Play
  <2>2. CASE scene # "wallet"
    BY <1>2, <2>2 DEF Next, Elsewhere
  <2> QED
    BY <2>1, <2>2
<1>3. ASSUME UNCHANGED vars PROVE UNCHANGED budgetVars
  BY <1>3 DEF vars
<1> QED
  BY <1>1, <1>2, <1>3

(* The breaker stops what it knows of: in one life of the process the        *)
(* answers of a day overrun its budget by less than one answer of every      *)
(* villager, whatever the semaphore admits.  What failed calls are billed    *)
(* and what a restart forgets is not known to it: HardCeiling is refuted.    *)
THEOREM VillagersStopSpending == Spec => []SpendingStops
  BY WalletPart, SpendingAlwaysStops, PTL DEF Spec

LEMMA CadencePart ==
  /\ Init => SchedulerFresh
  /\ [Next]_vars => [SchedulerNext]_schedulerVars
<1>1. Init => SchedulerFresh
  BY DEF Init
<1>2. ASSUME Next PROVE [SchedulerNext]_schedulerVars
  <2>1. CASE scene = "cadence"
    BY <1>2, <2>1 DEF Next, Play
  <2>2. CASE scene # "cadence"
    BY <1>2, <2>2 DEF Next, Elsewhere
  <2> QED
    BY <2>1, <2>2
<1>3. ASSUME UNCHANGED vars PROVE UNCHANGED schedulerVars
  BY <1>3 DEF vars
<1> QED
  BY <1>1, <1>2, <1>3

(* A villager's ticks begin a cooldown apart, and max_reactive_per_5min is   *)
(* exceeded by one tick at most, however long the ticks are that requests    *)
(* and wakings fall into (TickScheduler._loop and request_reactive).         *)
THEOREM VillagersKeepPace == Spec => []ReactivePace
  BY CadencePart, PaceIsAlwaysKept, PTL DEF Spec

LEMMA TickPart ==
  /\ Init => GraphInit
  /\ [Next]_vars => [GraphNext]_graphVars
<1>1. Init => GraphInit
  BY DEF Init
<1>2. ASSUME Next PROVE [GraphNext]_graphVars
  <2>1. CASE scene = "tick"
    BY <1>2, <2>1 DEF Next, Play
  <2>2. CASE scene # "tick"
    BY <1>2, <2>2 DEF Next, Elsewhere
  <2> QED
    BY <2>1, <2>2
<1>3. ASSUME UNCHANGED vars PROVE UNCHANGED graphVars
  BY <1>3 DEF vars
<1> QED
  BY <1>1, <1>2, <1>3

(* The streak a prompt quotes counts deliveries of refusals, each of them    *)
(* once: percepts that are dropped from a full queue or drained by a tick    *)
(* that raises are not counted again, nor is a plumbing failure.  A refusal  *)
(* that the consumer is handed twice is two deliveries.                      *)
THEOREM VillagersAdviceIsEarned == Spec => []AdviceIsEarned
<1>1. Spec => [](GraphTypeOK /\ AdviceIsEarned)
  BY TickPart, GraphAlwaysEarns, PTL DEF Spec
<1> QED
  BY <1>1, PTL

LEMMA StreamPart ==
  /\ Init => StreamInit
  /\ [Next]_vars => [StreamNext]_streamVars
<1>1. Init => StreamInit
  BY DEF Init
<1>2. ASSUME Next PROVE [StreamNext]_streamVars
  <2>1. CASE scene = "stream"
    BY <1>2, <2>1 DEF Next, Play
  <2>2. CASE scene # "stream"
    BY <1>2, <2>2 DEF Next, Elsewhere
  <2> QED
    BY <2>1, <2>2
<1>3. ASSUME UNCHANGED vars PROVE UNCHANGED streamVars
  BY <1>3 DEF vars
<1> QED
  BY <1>1, <1>2, <1>3

(* A villager's memories are reflected on or excused: stores that commit out *)
(* of order, two passes at once and a pass that loses its insights half way  *)
(* leave no memory behind the watermark that no insight was drawn from.      *)
THEOREM VillagersSkipNothing == Spec => []NothingSkipped
<1>1. Spec => [](StreamTypeOK /\ NothingSkipped)
  BY StreamPart, StreamNeverSkips, PTL DEF Spec
<1> QED
  BY <1>1, PTL

LEMMA SchoolPart ==
  /\ Init => CurriculumInit
  /\ [Next]_vars => [CurriculumNext]_curriculumVars
<1>1. Init => CurriculumInit
  BY DEF Init
<1>2. ASSUME Next PROVE [CurriculumNext]_curriculumVars
  <2>1. CASE scene = "school"
    BY <1>2, <2>1 DEF Next, Play
  <2>2. CASE scene # "school"
    BY <1>2, <2>2 DEF Next, Elsewhere
  <2> QED
    BY <2>1, <2>2
<1>3. ASSUME UNCHANGED vars PROVE UNCHANGED curriculumVars
  BY <1>3 DEF vars
<1> QED
  BY <1>1, <1>2, <1>3

(* masteryGate and selectSkill: a new skill is practised only while nothing  *)
(* tried on the goal path fails, and a window of successes opens the gate.   *)
THEOREM VillagersKeepDepth == Spec => []DepthOverBreadth
<1>1. Spec => [](CurriculumTypeOK /\ DepthOverBreadth)
  BY SchoolPart, CurriculumKeepsDepth, PTL DEF Spec
<1> QED
  BY <1>1, PTL

LEMMA VillagePart ==
  /\ Init => CivicInit
  /\ [Next]_vars => [CivicNext]_civicVars
<1>1. Init => CivicInit
  BY DEF Init
<1>2. ASSUME Next PROVE [CivicNext]_civicVars
  <2>1. CASE scene = "village"
    BY <1>2, <2>1 DEF Next, Play
  <2>2. CASE scene # "village"
    BY <1>2, <2>2 DEF Next, Elsewhere
  <2> QED
    BY <2>1, <2>2
<1>3. ASSUME UNCHANGED vars PROVE UNCHANGED civicVars
  BY <1>3 DEF vars
<1> QED
  BY <1>1, <1>2, <1>3

(* A mind that has heard all of government.events shows the open election    *)
(* with its candidates and voters, or none, and the newest mayor, unless its *)
(* process has forgotten or has heard two results in the wrong order.        *)
THEOREM VillagersKnowTheirVillage == Spec => []CivicIsCurrent
<1>1. Spec => [](CivicTypeOK /\ CivicIsCurrent)
  BY VillagePart, CivicStaysCurrent, PTL DEF Spec
<1> QED
  BY <1>1, PTL

LEMMA BenchPart ==
  /\ Init => WorkshopInit
  /\ [Next]_vars => [WorkshopNext]_workshopVars
<1>1. Init => WorkshopInit
  BY DEF Init
<1>2. ASSUME Next PROVE [WorkshopNext]_workshopVars
  <2>1. CASE scene = "bench"
    BY <1>2, <2>1 DEF Next, Play
  <2>2. CASE scene # "bench"
    BY <1>2, <2>2 DEF Next, Elsewhere
  <2> QED
    BY <2>1, <2>2
<1>3. ASSUME UNCHANGED vars PROVE UNCHANGED workshopVars
  BY <1>3 DEF vars
<1> QED
  BY <1>1, <1>2, <1>3

(* An errand to the furnace closes the recipe it was run for, and leaves     *)
(* nothing of its batch behind (runCraftFlow and the smelt it waits for).    *)
THEOREM VillagersErrandsPay == Spec => []ErrandPays
<1>1. Spec => [](WorkshopTypeOK /\ ErrandPays)
  BY BenchPart, ErrandAlwaysPays, PTL DEF Spec
<1> QED
  BY <1>1, PTL

LEMMA ChestPart ==
  /\ Init => StoreInit
  /\ [Next]_vars => [StoreNext]_storeVars
<1>1. Init => StoreInit
  BY DEF Init
<1>2. ASSUME Next PROVE [StoreNext]_storeVars
  <2>1. CASE scene = "chest"
    BY <1>2, <2>1 DEF Next, Play
  <2>2. CASE scene # "chest"
    BY <1>2, <2>2 DEF Next, Elsewhere
  <2> QED
    BY <2>1, <2>2
<1>3. ASSUME UNCHANGED vars PROVE UNCHANGED storeVars
  BY <1>3 DEF vars
<1> QED
  BY <1>1, <1>2, <1>3

LEMMA SkillsPart ==
  /\ Init => SkillsInit
  /\ [Next]_vars => [SkillsNext]_skillVars
<1>1. Init => SkillsInit
  BY DEF Init
<1>2. ASSUME Next PROVE [SkillsNext]_skillVars
  <2>1. CASE scene = "skills"
    BY <1>2, <2>1 DEF Next, Play
  <2>2. CASE scene # "skills"
    BY <1>2, <2>2 DEF Next, Elsewhere
  <2> QED
    BY <2>1, <2>2
<1>3. ASSUME UNCHANGED vars PROVE UNCHANGED skillVars
  BY <1>3 DEF vars
<1> QED
  BY <1>1, <1>2, <1>3

(* A store or a retrieve moves no more than its count and tells what it      *)
(* moved, whoever else is at the chest; and a skill fails as its schema says *)
(* and tells no more than what it mined, whichever skills called it          *)
(* (BotSession's store and retrieve, the skill registry).                    *)
THEOREM VillagersHandsKeepTheirWord == Spec => []HandsKeepTheirWord
<1>1. Spec => [](StoreTypeOK /\ MovesWhatItTells)
  BY ChestPart, StoresAlwaysTell, PTL DEF Spec
<1>2. Spec => [](SkillsTypeOK /\ SkillsKeepTheirWord)
  BY SkillsPart, SkillsAlwaysKeepTheirWord, PTL DEF Spec
<1>3. MovesWhatItTells /\ SkillsKeepTheirWord => HandsKeepTheirWord
  BY DEF HandsKeepTheirWord
<1> QED
  BY <1>1, <1>2, <1>3, PTL

(* Every part keeps its types, whichever scene is played.                    *)
THEOREM VillagersKeepTheirTypes == Spec => []TypeOK
<1>1. Spec => []SchedulerTypeOK
  <2>1. PaceInv /\ [SchedulerNext]_schedulerVars => PaceInv'
    BY PaceStays
  <2>2. PaceInv => SchedulerTypeOK
    BY DEF PaceInv
  <2> QED
    BY CadencePart, PaceAtFirst, <2>1, <2>2, PTL DEF Spec
<1>2. Spec => [](GraphTypeOK /\ AdviceIsEarned)
  BY TickPart, GraphAlwaysEarns, PTL DEF Spec
<1>3. Spec => []BudgetTypeOK
  <2>1. BudgetInv /\ [BudgetNext]_budgetVars => BudgetInv'
    BY BudgetSteps
  <2>2. BudgetInv => BudgetTypeOK
    BY DEF BudgetInv, BudgetShape, BudgetTypeOK, CallRecord
  <2> QED
    BY WalletPart, BudgetBegins, <2>1, <2>2, PTL DEF Spec
<1>4. Spec => [](CivicTypeOK /\ CivicIsCurrent)
  BY VillagePart, CivicStaysCurrent, PTL DEF Spec
<1>5. Spec => [](StreamTypeOK /\ NothingSkipped)
  BY StreamPart, StreamNeverSkips, PTL DEF Spec
<1>6. Spec => []GatherTypeOK
  BY TripPart, TripsKeepTheirTypes, PTL DEF Spec
<1>7. Spec => []HuntTypeOK
  BY HuntPart, HuntsKeepTheirTypes, PTL DEF Spec
<1>8. Spec => [](WorkshopTypeOK /\ ErrandPays)
  BY BenchPart, ErrandAlwaysPays, PTL DEF Spec
<1>9. Spec => [](StoreTypeOK /\ MovesWhatItTells)
  BY ChestPart, StoresAlwaysTell, PTL DEF Spec
<1>10. Spec => [](CurriculumTypeOK /\ DepthOverBreadth)
  BY SchoolPart, CurriculumKeepsDepth, PTL DEF Spec
<1>11. Spec => []SessionsTypeOK
  <2>1. SessionsInv /\ [SessionsNext]_sessionVars => SessionsInv'
    BY SessionsStep
  <2>2. SessionsInv => SessionsTypeOK
    BY DEF SessionsInv
  <2> QED
    BY SessionsPart, SessionsBegin, <2>1, <2>2, PTL DEF Spec
<1>12. Spec => [](SkillsTypeOK /\ SkillsKeepTheirWord)
  BY SkillsPart, SkillsAlwaysKeepTheirWord, PTL DEF Spec
<1>13. /\ SchedulerTypeOK /\ GraphTypeOK /\ BudgetTypeOK /\ CivicTypeOK /\ StreamTypeOK /\ GatherTypeOK
       /\ HuntTypeOK /\ WorkshopTypeOK /\ StoreTypeOK /\ CurriculumTypeOK /\ SessionsTypeOK
       /\ SkillsTypeOK
       => TypeOK
  BY DEF TypeOK
<1> QED
  BY <1>1, <1>2, <1>3, <1>4, <1>5, <1>6, <1>7, <1>8, <1>9, <1>10, <1>11, <1>12, <1>13, PTL
=============================================================================
