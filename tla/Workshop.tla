------------------------------ MODULE Workshop ------------------------------
(***************************************************************************)
(* The craft verb of one body (minecraft-service, runCraftFlow and the     *)
(* smelt errand inside it) at a furnace that neighbours use too.  Every    *)
(* window click is awaited, so fire, neighbours and watchdog act between   *)
(* any two of them.  One craft is in flight; after the watchdog any other  *)
(* command may hold the seam it asks about.                                *)
(***************************************************************************)
EXTENDS Naturals

CONSTANTS
  Packs,   \* what the body may carry at first: a set of [Item -> Nat]
  MaxIron  \* raw iron and ingots about, at most

Item  == {"raw", "ingot", "stick", "planks", "log", "coal", "furnace", "table", "sword"}
Fuels == {"coal", "planks", "log"}

ASSUME WorkshopAssumption == Packs \subseteq [Item -> Nat] /\ MaxIron \in Nat \ {0}

VARIABLES
  pack,       \* the inventory
  furnace,    \* its slots and its fire, in half smelts; alien: the slot with what is no iron
  built,      \* which of furnace and table stand within CRAFT_TABLE_SEARCH_DISTANCE
  craft,      \* the flow in flight: stage, item asked for, smelt step, the count it took
              \* from the output slot, the ingots among them, and (of the properties)
              \* whether it has emptied the slots and what was done between its takes
  verdict,    \* how the last flow ended, and what became of its errand
  seam,       \* whose command has busy = 'action'
  unruly      \* history: a neighbour was at the furnace since the flow began

workshopVars == <<pack, furnace, built, craft, verdict, seam, unruly>>

Recipe(ask) == CASE ask = "sword"  -> [ingot |-> 2, stick |-> 1]
                 [] ask = "stick"  -> [planks |-> 2]
                 [] ask = "planks" -> [log |-> 1]
Makes(ask)      == IF ask = "sword" THEN 1 ELSE 4
NeedsTable(ask) == ask = "sword"

Plus(p, i, n)  == [p EXCEPT ![i] = @ + n]
Minus(p, i, n) == [p EXCEPT ![i] = @ - n]

Unmet(ask) == {i \in DOMAIN Recipe(ask) : pack[i] < Recipe(ask)[i]}
Craftable(ask) == Unmet(ask) = {}

HalfSmelts(f)   == IF f = "coal" THEN 16 ELSE 3
ItemsFor(f, n)  == (2 * n + HalfSmelts(f) - 1) \div HalfSmelts(f)

\* pickFuel: the best class of which what is carried covers the ask.
FuelFor(n) == LET covers == {f \in Fuels : pack[f] >= ItemsFor(f, n) /\ pack[f] > 0}
              IN  IF "coal" \in covers THEN "coal" ELSE IF "planks" \in covers THEN "planks"
                  ELSE IF "log" \in covers THEN "log" ELSE "none"

NoStep == [count |-> 0, fuel |-> "none"]

\* Mutant: other gaps are left for the craft to find.
Errand_AnyGap(ask) == "ingot" \in Unmet(ask) /\ pack["raw"] >= Recipe(ask)["ingot"] - pack["ingot"]

\* planSmeltStep: the one gap is ingots, and the raw iron is there.
Errand(ask) == Unmet(ask) = {"ingot"} /\ pack["raw"] >= Recipe(ask)["ingot"] - pack["ingot"]

EmptyFurnace == [input |-> 0, output |-> 0, fuel |-> "none", items |-> 0, fire |-> 0, alien |-> "none"]
NoCraft      == [stage |-> "none", ask |-> "none", step |-> NoStep, took |-> 0, ingots |-> 0,
                 cleared |-> FALSE, late |-> 0]

StillOurs == seam # "free"

To(stage) == craft' = [craft EXCEPT !.stage = stage]

Verdict(how, c) == [how |-> how, brought |-> c.step.count > 0 /\ c.ingots >= c.step.count,
                    cleared |-> c.cleared, late |-> c.late]

\* The flow c settles.
Concludes(how, c) == /\ craft' = NoCraft /\ verdict' = Verdict(how, c)
                   /\ seam' = IF seam = "craft" THEN "free" ELSE seam

EndsAs(how) == Concludes(how, craft)

-----------------------------------------------------------------------------
\* Up to the first await: what is missing is taught, or the errand begins.
StartCraft(ask) ==
  /\ seam = "free" /\ craft = NoCraft
  /\ LET want == [count |-> 2 - pack["ingot"], fuel |-> FuelFor(2 - pack["ingot"])]
         begun(stage, step) == /\ craft' = [NoCraft EXCEPT !.stage = stage, !.ask = ask, !.step = step]
                               /\ seam' = "craft" /\ verdict' = Verdict("none", NoCraft)
         failed(how) == /\ verdict' = Verdict(how, NoCraft) /\ UNCHANGED <<craft, seam>>
     IN  IF Craftable(ask) THEN begun("table", NoStep)
         ELSE IF ~Errand(ask) THEN failed("missing")
         ELSE IF want.fuel = "none" THEN failed("no fuel")
         ELSE IF "furnace" \notin built /\ pack["furnace"] = 0 THEN failed("no furnace")
         ELSE begun("furnace", want)
  /\ unruly' = FALSE
  /\ UNCHANGED <<pack, furnace, built>>

\* Walk to what stands, or set what is carried: the goto or the placement
\* may fail, and the world may have placed what the call says it did not.
Acquire(thing) ==
  /\ craft.stage = thing
  /\ \/ thing \in built /\ UNCHANGED <<built, pack>>
     \/ /\ thing \notin built /\ pack[thing] > 0
        /\ built' = built \cup {thing} /\ pack' = Minus(pack, thing, 1)

AtFurnace ==
  /\ Acquire("furnace")
  /\ IF StillOurs THEN To("put fuel") /\ UNCHANGED <<verdict, seam>> ELSE EndsAs("abandoned")
  /\ UNCHANGED <<furnace, unruly>>

\* Click by click: fuel, input.  A slot with something else in it refuses.
PutFuel ==
  LET s == craft.step IN
  /\ craft.stage = "put fuel" /\ furnace.fuel \in {"none", s.fuel} /\ pack[s.fuel] >= ItemsFor(s.fuel, s.count)
  /\ pack' = Minus(pack, s.fuel, ItemsFor(s.fuel, s.count))
  /\ furnace' = [furnace EXCEPT !.fuel = s.fuel, !.items = @ + ItemsFor(s.fuel, s.count)]
  /\ To("put input")
  /\ UNCHANGED <<built, verdict, seam, unruly>>

PutInput ==
  /\ craft.stage = "put input" /\ furnace.alien # "input" /\ pack["raw"] >= craft.step.count
  /\ pack' = Minus(pack, "raw", craft.step.count)
  /\ furnace' = [furnace EXCEPT !.input = @ + craft.step.count]
  /\ To("waiting")
  /\ UNCHANGED <<built, verdict, seam, unruly>>

Burnable == furnace.fire + (IF furnace.items > 0 THEN furnace.items * HalfSmelts(furnace.fuel) ELSE 0)

\* One item is done, lighting fuel as it needs.
Smelts ==
  /\ furnace.input > 0 /\ furnace.alien = "none" /\ Burnable >= 2
  /\ LET lit == IF furnace.fire >= 2 THEN 0
                ELSE IF furnace.fire + HalfSmelts(furnace.fuel) >= 2 THEN 1 ELSE 2
     IN  furnace' = [furnace EXCEPT !.input = @ - 1, !.output = @ + 1, !.items = @ - lit,
                       !.fuel = IF furnace.items = lit THEN "none" ELSE @,
                       !.fire = @ + (IF lit = 0 THEN 0 ELSE lit * HalfSmelts(furnace.fuel)) - 2]
  /\ craft' = IF craft.stage = "take input" THEN [craft EXCEPT !.late = @ + 1] ELSE craft
  /\ UNCHANGED <<pack, built, verdict, seam, unruly>>

FireDies ==
  /\ furnace.fire > 0 /\ furnace.input = 0
  /\ furnace' = [furnace EXCEPT !.fire = 0]
  /\ UNCHANGED <<pack, built, craft, verdict, seam, unruly>>

\* The batch is there, or the deadline is, or the seam is free: take what the
\* slot shows, whatever it is.
TakeOutput ==
  LET ingots == IF furnace.alien = "output" THEN 0 ELSE furnace.output IN
  /\ craft.stage = "waiting"
  /\ craft' = [craft EXCEPT !.stage = "take input", !.took = furnace.output, !.ingots = ingots]
  /\ pack' = Plus(pack, "ingot", ingots)
  /\ furnace' = [furnace EXCEPT !.output = 0, !.alien = IF @ = "output" THEN "none" ELSE @]
  /\ UNCHANGED <<built, verdict, seam, unruly>>

TakeInput ==
  /\ craft.stage = "take input" /\ To("take fuel")
  /\ pack' = IF furnace.alien = "input" THEN pack ELSE Plus(pack, "raw", furnace.input)
  /\ furnace' = [furnace EXCEPT !.input = 0, !.alien = IF @ = "input" THEN "none" ELSE @]
  /\ UNCHANGED <<built, verdict, seam, unruly>>

\* ... and judge the errand by the count that was taken.
TakeFuel ==
  LET emptied == [craft EXCEPT !.cleared = TRUE] IN
  /\ craft.stage = "take fuel"
  /\ pack' = IF furnace.items = 0 THEN pack ELSE Plus(pack, furnace.fuel, furnace.items)
  /\ furnace' = [furnace EXCEPT !.fuel = "none", !.items = 0]
  /\ IF craft.took < craft.step.count THEN Concludes("short", emptied)
     ELSE IF Craftable(craft.ask) THEN craft' = [emptied EXCEPT !.stage = "table"] /\ UNCHANGED <<verdict, seam>>
     ELSE Concludes("missing", emptied)
  /\ UNCHANGED <<built, unruly>>

\* The recipe needs a table and there is none, or the flow goes to it.
NoTable ==
  /\ craft.stage = "table" /\ NeedsTable(craft.ask) /\ "table" \notin built /\ pack["table"] = 0
  /\ EndsAs("no table")
  /\ UNCHANGED <<pack, furnace, built, unruly>>

AtTable ==
  /\ IF NeedsTable(craft.ask) THEN Acquire("table")
     ELSE craft.stage = "table" /\ UNCHANGED <<built, pack>>
  /\ IF StillOurs THEN To("craft") /\ UNCHANGED <<verdict, seam>> ELSE EndsAs("abandoned")
  /\ UNCHANGED <<furnace, unruly>>

Crafts ==
  LET r == Recipe(craft.ask) IN
  /\ craft.stage = "craft" /\ Craftable(craft.ask)
  /\ pack' = [i \in Item |-> pack[i] - (IF i \in DOMAIN r THEN r[i] ELSE 0)
                                     + (IF i = craft.ask THEN Makes(i) ELSE 0)]
  /\ EndsAs("crafted")
  /\ UNCHANGED <<furnace, built, unruly>>

\* A walk, a placement or a window that throws, wherever the flow stands: what
\* lies in the furnace stays there.
CraftFails ==
  /\ craft # NoCraft /\ EndsAs("failed") /\ UNCHANGED <<pack, furnace, built, unruly>>

CraftTimesOut ==
  /\ seam = "craft" /\ seam' = "free" /\ UNCHANGED <<pack, furnace, built, craft, verdict, unruly>>

AnotherVerb ==
  /\ seam' = IF seam = "free" /\ craft # NoCraft THEN "other" ELSE "free"
  /\ seam # "craft" /\ seam' # seam
  /\ UNCHANGED <<pack, furnace, built, craft, verdict, unruly>>

\* A neighbour leaves iron or something else in the slots, or takes what is
\* there: once in a flow, and never more than MaxIron in all.
NeighbourMeddles ==
  /\ craft # NoCraft /\ ~unruly
  /\ \E n \in 0..MaxIron, a \in {"none", "input", "output"} :
       /\ furnace' = [furnace EXCEPT !.alien = a, !.input = IF a = "output" THEN 0 ELSE n,
                                     !.output = IF a = "input" THEN 0 ELSE n]
  /\ furnace' # furnace /\ unruly' = TRUE
  /\ pack["raw"] + pack["ingot"] + furnace'.input + furnace'.output <= MaxIron
  /\ UNCHANGED <<pack, built, craft, verdict, seam>>

WorkshopInit ==
  /\ pack \in Packs /\ furnace = EmptyFurnace /\ built \in SUBSET {"furnace", "table"}
  /\ craft = NoCraft /\ verdict = Verdict("none", NoCraft) /\ seam = "free" /\ unruly = FALSE

WorkshopNext ==
  \/ \E ask \in {"sword", "stick", "planks"} : StartCraft(ask)
  \/ AtFurnace \/ PutFuel \/ PutInput \/ Smelts \/ FireDies \/ TakeOutput \/ TakeInput \/ TakeFuel
  \/ NoTable \/ AtTable \/ Crafts \/ CraftFails \/ CraftTimesOut \/ AnotherVerb \/ NeighbourMeddles

-----------------------------------------------------------------------------
(* Properties. *)

WorkshopTypeOK ==
  /\ pack \in [Item -> Nat] /\ built \subseteq {"furnace", "table"}
  /\ furnace \in [input : Nat, output : Nat, fuel : Fuels \cup {"none"}, items : Nat, fire : Nat,
                  alien : {"none", "input", "output"}]
  /\ (furnace.items = 0) = (furnace.fuel = "none")
  /\ craft.stage \in {"none", "furnace", "put fuel", "put input", "waiting", "take input", "take fuel",
                      "table", "craft"}
  /\ seam \in {"free", "craft", "other"} /\ unruly \in BOOLEAN

\* The errand closes the recipe: one that brought the ingots it went for never
\* ends in "missing ingredients", whoever else was at the furnace.  And when it
\* has emptied the slots, interrupted, short or done, it leaves no iron, no fuel
\* and no ingot of its batch there, save the ingots that came out between its
\* take of the output and its take of the input.
ErrandPays ==
  /\ ~(verdict.how = "missing" /\ verdict.brought)
  /\ verdict.cleared /\ ~unruly =>
       furnace.input = 0 /\ furnace.fuel = "none" /\ furnace.output <= verdict.late
=============================================================================
