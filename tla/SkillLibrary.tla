---------------------------- MODULE SkillLibrary ----------------------------
(***************************************************************************)
(* The skills of minecraft-service (src/skills): plans over a handful of   *)
(* primitives, and over each other, that the registry runs one invocation  *)
(* at a time and records.  A failure travels up through every plan with    *)
(* its code intact, unless a plan has an answer to it.                     *)
(*                                                                         *)
(* The pack is one count: of the item that what is mined drops.  What a    *)
(* craft needs, and what stands within reach, is the world's choice.       *)
(***************************************************************************)
EXTENDS Naturals

CONSTANTS
  Species,  \* how many log species there are to try
  MaxWant,  \* what a count may be
  PoolMax,  \* how many blocks a search finds
  RoomFor   \* how many of the dropped item are in the pack and on the ground

ASSUME SkillAssumption ==
  /\ Species \in Nat \ {0} /\ MaxWant \in Nat \ {0} /\ PoolMax \in Nat /\ RoomFor \in Nat

VARIABLES
  running,    \* the innermost skill, or nobody
  frames,     \* [SkillName -> its activation]
  primitive,  \* the primitive in flight
  reply,      \* what the last call of the innermost skill came to
  booked,     \* the last invocation's record
  held,    \* of the dropped item, in the pack
  fallen,     \* of the dropped item, on the ground
  mined,      \* whether a block was dug yet (lastDigDropId)
  baseline,   \* what was held before the last dig (preDigInv)
  entered,    \* what came into the pack in this invocation (history)
  engaged,    \* pvp has a target
  hearth      \* the furnace while its window is open

worldOfSkills == <<held, fallen, mined, baseline, entered, engaged, hearth>>
skillVars == <<running, frames, primitive, reply, booked, worldOfSkills>>

-----------------------------------------------------------------------------
(* Plans. *)

\* Where a plan has come to its end.
Done == 0

\* A step calls, and goes on; Sparing: unless the answer is one that leads
\* elsewhere; Mending: or one of those whose remedy is tried once.
Step(asked, next) ==
  [call |-> asked, next |-> next, spares |-> "none", detour |-> Done, mends |-> [c \in {} |-> Done]]
Sparing(asked, next, code, detour) ==
  [call |-> asked, next |-> next, spares |-> code, detour |-> detour, mends |-> [c \in {} |-> Done]]
Mending(asked, next, mends) ==
  [call |-> asked, next |-> next, spares |-> "none", detour |-> Done, mends |-> mends]

\* A skill: the code it refuses a malformed count or name with, its steps and
\* the codes its schema names.
Plan(refuses, steps, codes) == [refuses |-> refuses, steps |-> steps, codes |-> codes]

TripCodes == {"RESOURCE_NOT_FOUND", "PATH_NOT_FOUND", "TOOL_REQUIRED", "TOOL_TIER_REQUIRED", "TIMEOUT",
              "INVENTORY_FULL", "ABORTED", "INTERNAL"}
Codes == TripCodes \cup {"PATH_SEARCH_EXHAUSTED", "UNSUPPORTED_NAME", "RECIPE_UNAVAILABLE", "MISSING_MATERIALS",
                         "PLACE_FAILED", "CONTAINER_NOT_FOUND", "TARGET_NOT_FOUND"}

\* Species after species, until one is around.
MineWoodLog == Plan("none",
  [i \in 1..Species |-> IF i < Species THEN Sparing("mine", Done, "RESOURCE_NOT_FOUND", i + 1) ELSE Step("mine", Done)],
  TripCodes)

\* Of the logs held, of any species; else of the first species around.
CraftPlanks == Plan("UNSUPPORTED_NAME",
  [i \in 1..(3 * Species) |->
     IF i <= Species THEN Sparing("craft", Done, "MISSING_MATERIALS", i + 1)
     ELSE IF (i - Species) % 2 = 0 THEN Step("craft", Done)
     ELSE IF i + 1 < 3 * Species THEN Sparing("mine", i + 1, "RESOURCE_NOT_FOUND", i + 2)
     ELSE Step("mine", i + 1)],
  TripCodes \cup {"UNSUPPORTED_NAME", "RECIPE_UNAVAILABLE", "MISSING_MATERIALS"})

CraftSticks == Plan("none",
  <<Sparing("craft", Done, "MISSING_MATERIALS", 2), Step("craftPlanks", 3), Step("craft", Done)>>,
  TripCodes \cup {"RECIPE_UNAVAILABLE", "MISSING_MATERIALS"})

CraftCraftingTable == Plan("none",
  <<Sparing("craft", Done, "MISSING_MATERIALS", 2), Step("craftPlanks", 3), Step("craft", Done)>>,
  TripCodes \cup {"RECIPE_UNAVAILABLE", "MISSING_MATERIALS"})

CraftWoodenPickaxe == Plan("none",
  <<Step("craftPlanks", 2), Step("craftSticks", 3), Step("craftCraftingTable", 4), Step("place", 5), Step("bench", Done)>>,
  TripCodes \cup {"RECIPE_UNAVAILABLE", "MISSING_MATERIALS", "PLACE_FAILED"})

CraftWoodenSword == Plan("none",
  <<Step("craft", 2), Step("craft", 3), Step("craft", 4), Step("bench", Done)>>,
  {"MISSING_MATERIALS", "RECIPE_UNAVAILABLE", "PLACE_FAILED", "TIMEOUT", "ABORTED", "INTERNAL"})

CollectCobblestone == Plan("none",
  <<Step("equip", 2), Step("mine", Done)>>,
  TripCodes \cup {"UNSUPPORTED_NAME"})

\* The stone that is missing, the sticks that are, and a table unless one is near.
StoneTool == Plan("none",
  <<Sparing("count", 3, "short", 2), Step("mine", 3), Sparing("count", 5, "short", 4), Step("craft", 5),
    Sparing("find", 7, "TARGET_NOT_FOUND", 6), Step("place", 7), Step("bench", Done)>>,
  TripCodes \cup {"UNSUPPORTED_NAME", "RECIPE_UNAVAILABLE", "MISSING_MATERIALS", "PLACE_FAILED"})

CraftStonePickaxe == StoneTool
CraftStoneAxe     == StoneTool
CraftStoneSword   == StoneTool

\* One variant of the ore, then the other.
BothVariants == <<Sparing("mine", 2, "RESOURCE_NOT_FOUND", 2), Sparing("mine", Done, "RESOURCE_NOT_FOUND", Done)>>

MineIronOre == Plan("INTERNAL", BothVariants, TripCodes)
MineCoalOre == Plan("INTERNAL", BothVariants, TripCodes \ {"TOOL_TIER_REQUIRED"})

CraftFurnace == Plan("INTERNAL",
  <<Mending("bench", Done, [c \in {"RECIPE_UNAVAILABLE", "MISSING_MATERIALS"} |-> IF c = "RECIPE_UNAVAILABLE" THEN 2 ELSE 3]),
    Step("place", 1), Step("mine", 1)>>,
  (TripCodes \ {"TOOL_TIER_REQUIRED"}) \cup {"RECIPE_UNAVAILABLE", "MISSING_MATERIALS", "PLACE_FAILED"})

CraftIronPickaxe == Plan("none",
  <<Mending("bench", Done, [c \in {"RECIPE_UNAVAILABLE"} |-> 2]), Step("place", 1)>>,
  {"MISSING_MATERIALS", "RECIPE_UNAVAILABLE", "PLACE_FAILED", "TIMEOUT", "ABORTED", "INTERNAL"})

SmeltIronOre == Plan("INTERNAL",
  <<Mending("smelt", Done, [c \in {"CONTAINER_NOT_FOUND"} |-> 2]), Step("place", 1)>>,
  {"CONTAINER_NOT_FOUND", "MISSING_MATERIALS", "PLACE_FAILED", "TIMEOUT", "ABORTED", "INTERNAL"})

CookMeat == Plan("none",
  <<Step("smelt", Done)>>,
  {"MISSING_MATERIALS", "CONTAINER_NOT_FOUND", "PLACE_FAILED", "TIMEOUT", "ABORTED", "INTERNAL"})

KillOnePig == Plan("none",
  <<Step("kill", Done)>>,
  {"TARGET_NOT_FOUND", "PATH_NOT_FOUND", "TOOL_REQUIRED", "TIMEOUT", "ABORTED", "INTERNAL"})

\* A primitive that is invoked by itself promises nothing.
ByItself(asked, refuses) == Plan(refuses, <<Step(asked, Done)>>, Codes)

Library ==
  [mineWoodLog |-> MineWoodLog, craftPlanks |-> CraftPlanks, craftSticks |-> CraftSticks,
   craftCraftingTable |-> CraftCraftingTable, craftWoodenPickaxe |-> CraftWoodenPickaxe,
   craftWoodenSword |-> CraftWoodenSword, collectCobblestone |-> CollectCobblestone,
   craftStonePickaxe |-> CraftStonePickaxe, craftStoneAxe |-> CraftStoneAxe, craftStoneSword |-> CraftStoneSword,
   mineIronOre |-> MineIronOre, mineCoalOre |-> MineCoalOre, craftFurnace |-> CraftFurnace,
   craftIronPickaxe |-> CraftIronPickaxe, smeltIronOre |-> SmeltIronOre, cookMeat |-> CookMeat, killOnePig |-> KillOnePig,
   mineBlock |-> ByItself("mine", "UNSUPPORTED_NAME"), craftItem |-> ByItself("recipe", "UNSUPPORTED_NAME"),
   placeItem |-> ByItself("place", "UNSUPPORTED_NAME"), smeltItem |-> ByItself("smelt", "UNSUPPORTED_NAME"),
   killMob |-> ByItself("kill", "none"), exploreUntil |-> ByItself("explore", "INTERNAL"),
   givePlacedItemBack |-> ByItself("recover", "UNSUPPORTED_NAME")]

SkillName == DOMAIN Library

\* The skills that add up the variants of an ore, and all that tell a count of
\* what was taken: by mining, or by a sweep after something else.
Ores    == {"mineIronOre", "mineCoalOre"}
Miners  == Ores \cup {"mineBlock", "mineWoodLog", "collectCobblestone"}
Tellers == Miners \cup {"killMob", "killOnePig", "givePlacedItemBack"}

-----------------------------------------------------------------------------
(* The registry and the plans. *)

Resting == [on |-> FALSE, caller |-> "registry", at |-> Done, mended |-> {}, want |-> 0, haul |-> 0]
Begun(caller, want) == [Resting EXCEPT !.on = TRUE, !.caller = caller, !.at = 1, !.want = want]

Untouched == [what |-> "none", goal |-> 0, got |-> 0, left |-> 0, away |-> FALSE]
NoReply   == [how |-> "none", got |-> 0]
Unbooked  == [skill |-> "none", how |-> "none", told |-> 0, entered |-> 0]
ShutHearth == [out |-> 0, cooking |-> 0, found |-> 0]

Top  == frames[running]
Here == Library[running].steps[Top.at]

Thinking   == running # "nobody" /\ primitive = Untouched
Failing    == Thinking /\ reply.how \notin {"none", "ok"}
Calling(c) == Thinking /\ reply = NoReply /\ Top.at # Done /\ Here.call = c

\* What a record is made of; entered is no part of it.
Record(s, how, told) == [skill |-> s, how |-> how, told |-> told, entered |-> entered]

\* The innermost skill is over: its caller has its answer, or the registry books it.
EndsWith(how, told) ==
  /\ frames' = [frames EXCEPT ![running] = Resting]
  /\ IF Top.caller = "registry"
     THEN running' = "nobody" /\ reply' = NoReply /\ booked' = Record(running, how, told)
     ELSE running' = Top.caller /\ reply' = [how |-> how, got |-> 0] /\ UNCHANGED booked

\* invoke
Invokes(s) ==
  /\ running = "nobody"
  /\ \E want \in 1..MaxWant : frames' = [frames EXCEPT ![s] = Begun("registry", want)]
  /\ running' = s /\ booked' = Unbooked /\ entered' = 0
  /\ UNCHANGED <<primitive, reply, held, fallen, mined, baseline, engaged, hearth>>

\* A count or a name that is none.
Refuses(s) ==
  /\ running = "nobody" /\ Library[s].refuses # "none"
  /\ booked' = [Record(s, Library[s].refuses, 0) EXCEPT !.entered = 0] /\ entered' = 0
  /\ UNCHANGED <<running, frames, primitive, reply, held, fallen, mined, baseline, engaged, hearth>>

CallsSkill(s) ==
  /\ Calling(s)
  /\ \E want \in 1..MaxWant : frames' = [frames EXCEPT ![s] = Begun(running, want)]
  /\ running' = s
  /\ UNCHANGED <<primitive, reply, booked, worldOfSkills>>

Haul == Top.haul + (IF running \in Tellers THEN reply.got ELSE 0)

GoesTo(label, haul, mended) ==
  /\ frames' = [frames EXCEPT ![running] = [Top EXCEPT !.at = label, !.haul = haul, !.mended = mended]]
  /\ reply' = NoReply
  /\ UNCHANGED <<running, primitive, booked, worldOfSkills>>

GoesOn ==
  /\ Thinking /\ reply.how = "ok"
  /\ GoesTo(IF running \in Ores /\ Haul >= Top.want THEN Done ELSE Here.next, Haul, Top.mended)

Detours ==
  /\ Failing /\ reply.how = Here.spares
  /\ GoesTo(Here.detour, Top.haul, Top.mended)

Mends ==
  /\ Failing /\ reply.how \in DOMAIN Here.mends \ Top.mended
  /\ GoesTo(Here.mends[reply.how], Top.haul, Top.mended \cup {reply.how})

\* Any other answer: a partial haul is kept, else the code goes up intact.
Fails ==
  /\ Failing /\ reply.how \notin {Here.spares} \cup (DOMAIN Here.mends \ Top.mended)
  /\ IF running \in Ores /\ Top.haul > 0 THEN GoesTo(Done, Top.haul, Top.mended)
     ELSE EndsWith(reply.how, 0) /\ UNCHANGED <<primitive, worldOfSkills>>

Returns ==
  /\ Thinking /\ reply = NoReply /\ Top.at = Done
  /\ IF running \in Ores /\ Top.haul = 0 THEN EndsWith("RESOURCE_NOT_FOUND", 0) ELSE EndsWith("ok", Top.haul)
  /\ UNCHANGED <<primitive, worldOfSkills>>

Replies(how, got) == primitive' = Untouched /\ reply' = [how |-> how, got |-> got]

-----------------------------------------------------------------------------
(* Primitives whose course nothing here depends on: what each may answer.   *)

\* Of what needs no table; of what does, none of which is within twelve
\* blocks; of any name at all.
CraftAnswers(c) == {"ok", "MISSING_MATERIALS", "INTERNAL"}
                     \cup (IF c = "craft" THEN {} ELSE {"RESOURCE_NOT_FOUND", "PATH_NOT_FOUND"})
                     \cup (IF c = "recipe" THEN {"RECIPE_UNAVAILABLE"} ELSE {})
PlaceAnswers == {"ok", "MISSING_MATERIALS", "PATH_NOT_FOUND", "PLACE_FAILED", "INTERNAL"}
EquipAnswers == {"ok", "RESOURCE_NOT_FOUND", "TOOL_REQUIRED"}
CountAnswers == {"ok", "short"}
FindAnswers  == {"ok", "TARGET_NOT_FOUND"}

AnswersOf(c) == CASE c \in {"craft", "bench", "recipe"} -> CraftAnswers(c)
                  [] c = "place" -> PlaceAnswers
                  [] c = "equip" -> EquipAnswers
                  [] c = "count" -> CountAnswers
                  [] c = "find"  -> FindAnswers
                  [] OTHER -> {}

Asks ==
  /\ Thinking /\ reply = NoReply /\ Top.at # Done
  /\ \E how \in AnswersOf(Here.call) : Replies(how, 0)
  /\ UNCHANGED <<running, frames, booked, worldOfSkills>>

-----------------------------------------------------------------------------
(* mineBlock *)

\* What is in the pack beyond what the last dig found there.
Gain == IF held > baseline THEN held - baseline ELSE 0

\* The next candidate, or none of them left.
SearchesBlocks ==
  /\ Calling("mine")
  /\ \/ Replies("RESOURCE_NOT_FOUND", 0)
     \/ /\ \E found \in 1..PoolMax :
             primitive' = [Untouched EXCEPT !.what = "seek", !.goal = Top.want - Top.haul, !.left = found]
        /\ UNCHANGED reply
  /\ UNCHANGED <<running, frames, booked, worldOfSkills>>

Seeking == primitive.what = "seek" /\ primitive.left > 0

MineTimesOut ==
  /\ Seeking
  /\ Replies(IF primitive.got > 0 THEN "ok" ELSE "TIMEOUT", primitive.got)
  /\ UNCHANGED <<running, frames, booked, worldOfSkills>>

LacksTool ==
  /\ Seeking /\ Replies("TOOL_REQUIRED", 0)
  /\ UNCHANGED <<running, frames, booked, worldOfSkills>>

\* No path, or a block that is gone.
PassesOver ==
  /\ Seeking
  /\ \E far \in BOOLEAN : primitive' = [primitive EXCEPT !.left = @ - 1, !.away = @ \/ far]
  /\ UNCHANGED <<running, frames, reply, booked, worldOfSkills>>

\* Mutant: the pack is counted before the first dig only.
Baseline_Once == IF mined THEN baseline ELSE held

Baseline == held

\* The pack is counted, then the block dug, with or without a drop; what is
\* dug may still count as refused, when it is the way to the drop that fails.
Digs ==
  /\ Seeking
  /\ mined' = TRUE /\ baseline' = Baseline
  /\ \E refused \in BOOLEAN, drop \in 0..1 :
       /\ drop = 1 => held + fallen < RoomFor
       /\ fallen' = fallen + drop
       /\ primitive' = [primitive EXCEPT !.what = IF refused THEN "seek" ELSE "sweep", !.left = @ - 1]
  /\ UNCHANGED <<running, frames, reply, booked, held, entered, engaged, hearth>>

\* collectNearbyDrops, as soon as it counts.
Sweeps ==
  /\ primitive.what = "sweep"
  /\ IF primitive.got + Gain >= primitive.goal THEN Replies("ok", primitive.got + Gain)
     ELSE primitive' = [primitive EXCEPT !.what = "seek", !.got = @ + Gain] /\ UNCHANGED reply
  /\ UNCHANGED <<running, frames, booked, worldOfSkills>>

RunsOut ==
  /\ primitive.what = "seek" /\ primitive.left = 0
  /\ Replies(IF primitive.away THEN "PATH_NOT_FOUND" ELSE "RESOURCE_NOT_FOUND", 0)
  /\ UNCHANGED <<running, frames, booked, worldOfSkills>>

-----------------------------------------------------------------------------
(* smeltItem *)

OpensFurnace ==
  /\ Calling("smelt")
  /\ \/ \E how \in {"MISSING_MATERIALS", "RESOURCE_NOT_FOUND", "PATH_NOT_FOUND"} : Replies(how, 0) /\ UNCHANGED hearth
     \/ /\ primitive' = [Untouched EXCEPT !.what = "smelt", !.goal = Top.want]
        /\ \E out, cooking \in 0..1 : hearth' = [out |-> out, cooking |-> cooking, found |-> out + cooking]
        /\ UNCHANGED reply
  /\ UNCHANGED <<running, frames, booked, held, fallen, mined, baseline, entered, engaged>>

Smelting == primitive.what = "smelt" /\ primitive.got < primitive.goal

\* The output slot is read, then emptied: what is done in between is not counted.
TakesSmelted ==
  /\ Smelting /\ hearth.out > 0
  /\ primitive' = [primitive EXCEPT !.got = @ + hearth.out]
  /\ \E late \in 0..hearth.cooking : hearth' = [hearth EXCEPT !.out = 0, !.cooking = @ - late]
  /\ UNCHANGED <<running, frames, reply, booked, held, fallen, mined, baseline, entered, engaged>>

\* One piece of the input, with a piece of fuel.
LoadsOne ==
  /\ Smelting /\ hearth.out = 0 /\ primitive.left < primitive.goal
  /\ primitive' = [primitive EXCEPT !.left = @ + 1]
  /\ hearth' = [hearth EXCEPT !.cooking = @ + 1]
  /\ UNCHANGED <<running, frames, reply, booked, held, fallen, mined, baseline, entered, engaged>>

\* The loop ends with its goal, at its deadline, or when as much came out as
\* went in and there is no more to load.
ShutsFurnace ==
  /\ primitive.what = "smelt"
  /\ Replies(IF primitive.got > 0 THEN "ok" ELSE IF primitive.left = 0 THEN "MISSING_MATERIALS" ELSE "TIMEOUT", 0)
  /\ hearth' = ShutHearth
  /\ UNCHANGED <<running, frames, booked, held, fallen, mined, baseline, entered, engaged>>

\* The window throws: nothing up to the registry's caller catches it, and
\* nothing is recorded.
WindowThrows ==
  /\ primitive.what = "smelt"
  /\ running' = "nobody" /\ frames' = [s \in SkillName |-> Resting]
  /\ primitive' = Untouched /\ reply' = NoReply /\ booked' = Unbooked /\ hearth' = ShutHearth
  /\ UNCHANGED <<held, fallen, mined, baseline, entered, engaged>>

FurnaceCooks ==
  /\ primitive.what = "smelt" /\ hearth.cooking > 0
  /\ hearth' = [hearth EXCEPT !.cooking = @ - 1, !.out = @ + 1]
  /\ UNCHANGED <<running, frames, primitive, reply, booked, held, fallen, mined, baseline, entered, engaged>>

-----------------------------------------------------------------------------
(* killMob, exploreUntil, givePlacedItemBack *)

\* What the sweep after a kill or a recovery returns: the gain over the last
\* mining's baseline, else every pickup of a name since the boot.
Swept(got) == IF mined THEN {Gain} ELSE {got, 1}

\* None in sight; or one to attack; or an attack that throws.
SeeksMob ==
  /\ Calling("kill")
  /\ \/ \E how \in {"TARGET_NOT_FOUND", "INTERNAL"} : Replies(how, 0) /\ engaged' = FALSE
     \/ primitive' = [Untouched EXCEPT !.what = "fight"] /\ engaged' = TRUE /\ UNCHANGED reply
  /\ UNCHANGED <<running, frames, booked, held, fallen, mined, baseline, entered, hearth>>

\* Mutant: a timeout walks away from the fight.
FightEnds_Timeout == \E how \in {"TIMEOUT", "INTERNAL"} : Replies(how, 0) /\ UNCHANGED engaged

FightEnds == \E how \in {"TIMEOUT", "INTERNAL"} : Replies(how, 0) /\ engaged' = FALSE

Fights ==
  /\ primitive.what = "fight"
  /\ \/ primitive' = [primitive EXCEPT !.what = "loot"] /\ engaged' = FALSE /\ UNCHANGED reply
     \/ FightEnds
  /\ UNCHANGED <<running, frames, booked, held, fallen, mined, baseline, entered, hearth>>

Loots ==
  /\ primitive.what = "loot"
  /\ \E n \in Swept(0) : Replies("ok", n)
  /\ UNCHANGED <<running, frames, booked, worldOfSkills>>

\* Legs until something is found, three in a row are blocked or the time is up.
BlockedLegs == 3

Explores ==
  /\ \/ Calling("explore") /\ primitive' = [Untouched EXCEPT !.what = "explore"] /\ UNCHANGED reply
     \/ /\ primitive.what = "explore" /\ primitive.left < BlockedLegs
        /\ \E moved \in BOOLEAN : primitive' = [primitive EXCEPT !.left = IF moved THEN 0 ELSE @ + 1]
        /\ UNCHANGED reply
     \/ /\ primitive.what = "explore"
        /\ \E how \in {"ok", "INTERNAL", IF primitive.left = BlockedLegs THEN "PATH_NOT_FOUND" ELSE "TIMEOUT"} : Replies(how, 0)
  /\ UNCHANGED <<running, frames, booked, worldOfSkills>>

\* To the block, which is dug if it is still the one: its drop is another
\* item than the one counted.
DigsUp ==
  /\ Calling("recover")
  /\ \/ \E how \in {"PATH_NOT_FOUND", "TARGET_NOT_FOUND", "INTERNAL"} : Replies(how, 0)
     \/ primitive' = [Untouched EXCEPT !.what = "recover", !.left = 1] /\ UNCHANGED reply
  /\ UNCHANGED <<running, frames, booked, worldOfSkills>>

RecoversDrop ==
  /\ primitive.what = "recover" /\ primitive.left = 1
  /\ primitive' = [primitive EXCEPT !.left = 0, !.got = 1] /\ entered' = entered + 1
  /\ UNCHANGED <<running, frames, reply, booked, held, fallen, mined, baseline, engaged, hearth>>

\* recovered: whether the sweep came back with anything.
Recovers ==
  /\ primitive.what = "recover"
  /\ \E n \in Swept(primitive.got) : Replies("ok", IF n > 0 THEN 1 ELSE 0)
  /\ UNCHANGED <<running, frames, booked, worldOfSkills>>

-----------------------------------------------------------------------------
(* The world. *)

BodyPicksUp ==
  /\ fallen > 0
  /\ fallen' = fallen - 1 /\ held' = held + 1 /\ entered' = entered + 1
  /\ UNCHANGED <<running, frames, primitive, reply, booked, mined, baseline, engaged, hearth>>

\* Thrown out, used up, or lost with a life.
BodyLoses ==
  /\ held > 0
  /\ held' = held - 1
  /\ UNCHANGED <<running, frames, primitive, reply, booked, fallen, mined, baseline, entered, engaged, hearth>>

SkillsInit ==
  /\ running = "nobody" /\ frames = [s \in SkillName |-> Resting] /\ primitive = Untouched
  /\ reply = NoReply /\ booked = Unbooked
  /\ held = 0 /\ fallen = 0 /\ mined = FALSE /\ baseline = 0 /\ entered = 0
  /\ engaged = FALSE /\ hearth = ShutHearth

SkillsNext ==
  \/ \E s \in SkillName : Invokes(s) \/ Refuses(s) \/ CallsSkill(s)
  \/ GoesOn \/ Detours \/ Mends \/ Fails \/ Returns \/ Asks
  \/ SearchesBlocks \/ MineTimesOut \/ LacksTool \/ PassesOver \/ Digs \/ Sweeps \/ RunsOut
  \/ OpensFurnace \/ TakesSmelted \/ LoadsOne \/ ShutsFurnace \/ WindowThrows \/ FurnaceCooks
  \/ SeeksMob \/ Fights \/ Loots \/ Explores \/ DigsUp \/ RecoversDrop \/ Recovers
  \/ BodyPicksUp \/ BodyLoses

-----------------------------------------------------------------------------
(* Properties. *)

SkillsTypeOK ==
  /\ running \in SkillName \cup {"nobody"}
  /\ {frames[s].caller : s \in SkillName} \subseteq SkillName \cup {"registry"}
  /\ {frames[s].haul : s \in SkillName} \subseteq Nat
  /\ {held, fallen, baseline, entered} \subseteq Nat
  /\ engaged \in BOOLEAN /\ mined \in BOOLEAN

\* What the assembled primitives answer although the schema does not say so:
\* a table or a furnace that is missing is RESOURCE_NOT_FOUND to them, and one
\* that is out of reach PATH_NOT_FOUND.
Undeclared(s) == IF s \in {"smeltIronOre", "craftIronPickaxe", "cookMeat", "craftWoodenSword"}
                 THEN {"RESOURCE_NOT_FOUND", "PATH_NOT_FOUND"} ELSE {}

\* A failure that comes up through the plans is one that the schema of the
\* skill names, but for those.
FailsAsPromised ==
  booked.skill # "none" => booked.how \in {"ok"} \cup Library[booked.skill].codes \cup Undeclared(booked.skill)

\* A skill that mines tells of something, and of no more than came into the
\* pack, however many blocks, variants and late pickups it took.
CountsWhatItTook ==
  booked.skill \in Miners /\ booked.how = "ok" => 0 < booked.told /\ booked.told <= booked.entered

\* killMob returned => pvp is disengaged, on every path.
Disengages == engaged => primitive.what = "fight"

\* When as much came out of the furnace as went in, nothing of it is cooking
\* still, unless the furnace was not empty to begin with.
LeavesNothingCooking ==
  (Smelting /\ hearth.out = 0 /\ primitive.left = primitive.got) => hearth.cooking <= hearth.found

\* What the skills say of what they did is so.
SkillsKeepTheirWord == FailsAsPromised /\ CountsWhatItTook /\ Disengages /\ LeavesNothingCooking
=============================================================================
