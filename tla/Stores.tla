------------------------------- MODULE Stores -------------------------------
(***************************************************************************)
(* The store and retrieve verbs (minecraft-service, BotSession and the     *)
(* chest primitives) of bodies that share one chest.  A retrieve reads the *)
(* chest, closes it, plans, and opens it again; every transfer is awaited, *)
(* so the chest it takes from is not the chest it planned for.             *)
(*                                                                         *)
(* Stacks and slots are a count each: a side is full when its room is      *)
(* used up.                                                                *)
(***************************************************************************)
EXTENDS Naturals, FiniteSets

CONSTANTS
  Body,       \* villagers at the chest
  Goods,      \* concrete items of the one family
  MaxAsk,     \* what count may be
  PackRoom,   \* what a pack takes
  ChestRoom,  \* what the chest takes
  Stock       \* what there is of each of the goods

ASSUME StoresAssumption ==
  /\ IsFiniteSet(Body) /\ IsFiniteSet(Goods)
  /\ MaxAsk \in Nat \ {0} /\ PackRoom \in Nat /\ ChestRoom \in Nat /\ Stock \in Nat

VARIABLES
  chest,   \* [Goods -> Nat]
  packs,   \* [Body -> [Goods -> Nat]]
  verb,    \* [Body -> the verb in flight]
  outcome     \* [Body -> how the last verb ended]

storeVars == <<chest, packs, verb, outcome>>

NoneOf   == [g \in Goods |-> 0]
NoVerb   == [stage |-> "none", kind |-> "none", count |-> 0, plan |-> NoneOf, todo |-> {}, moved |-> 0, got |-> 0]
Untold   == [how |-> "none", count |-> 0, total |-> 0, got |-> 0]

\* The sum of f over S, its units counted one by one.
Units(f, S)     == UNION {{x} \X (1..f[x]) : x \in S}
TotalOver(f, S) == Cardinality(Units(f, S))
Total(f)        == TotalOver(f, Goods)

Lesser(m, n) == IF m < n THEN m ELSE n
Over(m, n) == IF m > n THEN m - n ELSE 0

\* Any order of the goods that puts the deepest first.
Rankings(have) == {r \in [Goods -> 1..Cardinality(Goods)] :
                     \A g, h \in Goods : g # h => r[g] # r[h] /\ (have[g] > have[h] => r[g] < r[h])}

\* Mutant: count of every name is asked for.
Planned_OfEach(have, n, r) == [g \in Goods |-> Lesser(have[g], n)]

\* planItemCounts: what the goods ahead leave of the count.
Planned(have, n, r) == [g \in Goods |-> Lesser(have[g], Over(n, TotalOver(have, {h \in Goods : r[h] < r[g]})))]

PackFull(b) == Total(packs[b]) >= PackRoom

\* The verb ends, and says so.
Tells(b, how) == /\ verb' = [verb EXCEPT ![b] = NoVerb]
                 /\ outcome' = [outcome EXCEPT ![b] = [how |-> how, count |-> verb[b].count,
                                                 total |-> verb[b].moved, got |-> verb[b].got]]

-----------------------------------------------------------------------------
\* retrieve: to the chest, to read it.
Retrieve(b) ==
  /\ verb[b] = NoVerb
  /\ \E n \in 1..MaxAsk : verb' = [verb EXCEPT ![b] = [NoVerb EXCEPT !.stage = "look", !.kind = "retrieve", !.count = n]]
  /\ outcome' = [outcome EXCEPT ![b] = Untold]
  /\ UNCHANGED <<chest, packs>>

\* checkItemInsideChest, the plan, and the look into the pack before the walk back.
Looks(b) ==
  /\ verb[b].stage = "look"
  /\ IF chest = NoneOf THEN Tells(b, "TARGET_NOT_FOUND")
     ELSE IF PackFull(b) THEN Tells(b, "INVENTORY_FULL")
     ELSE /\ \E r \in Rankings(chest) :
               LET p == Planned(chest, verb[b].count, r)
               IN  verb' = [verb EXCEPT ![b].stage = "move", ![b].plan = p, ![b].todo = {g \in Goods : p[g] > 0}]
          /\ UNCHANGED outcome
  /\ UNCHANGED <<chest, packs>>

\* store: the plan is made of the pack.
Store(b) ==
  /\ verb[b] = NoVerb
  /\ IF packs[b] = NoneOf
     THEN outcome' = [outcome EXCEPT ![b] = [Untold EXCEPT !.how = "MISSING_MATERIALS"]] /\ UNCHANGED verb
     ELSE /\ \E n \in 1..MaxAsk, r \in Rankings(packs[b]) :
               LET p == Planned(packs[b], n, r)
               IN  verb' = [verb EXCEPT ![b] = [NoVerb EXCEPT !.stage = "move", !.kind = "store", !.count = n,
                                                  !.plan = p, !.todo = {g \in Goods : p[g] > 0}]]
          /\ outcome' = [outcome EXCEPT ![b] = Untold]
  /\ UNCHANGED <<chest, packs>>

\* No path, or the chest does not open.
ApproachFails(b) ==
  /\ verb[b].stage = "look" \/ (verb[b].stage = "move" /\ verb[b].todo = {g \in Goods : verb[b].plan[g] > 0})
  /\ verb[b].moved = 0 /\ verb[b].got = 0
  /\ \E how \in {"PATH_NOT_FOUND", "CONTAINER_NOT_FOUND"} : Tells(b, how)
  /\ UNCHANGED <<chest, packs>>

\* m of the goods change sides.
Transfer(b, g, m) ==
  IF verb[b].kind = "retrieve"
  THEN chest' = [chest EXCEPT ![g] = @ - m] /\ packs' = [packs EXCEPT ![b][g] = @ + m]
  ELSE chest' = [chest EXCEPT ![g] = @ + m] /\ packs' = [packs EXCEPT ![b][g] = @ - m]

Given(b, g) == Lesser(verb[b].plan[g], IF verb[b].kind = "retrieve" THEN chest[g] ELSE packs[b][g])
Room(b)     == IF verb[b].kind = "retrieve" THEN PackRoom - Total(packs[b]) ELSE ChestRoom - Total(chest)

DeepestNext(b, g) == g \in verb[b].todo /\ \A h \in verb[b].todo : verb[b].plan[h] <= verb[b].plan[g]

\* Mutant: what was planned is told to have moved.
Credited_Plan(b, g) == verb[b].plan[g]

Credited(b, g) == Given(b, g)

\* One request of the plan, at what is there now.
Moves(b) ==
  /\ verb[b].stage = "move"
  /\ verb[b].kind = "retrieve" => ~PackFull(b)
  /\ \E g \in Goods :
       /\ DeepestNext(b, g) /\ Given(b, g) <= Room(b)
       /\ Transfer(b, g, Given(b, g))
       /\ verb' = [verb EXCEPT ![b].todo = @ \ {g}, ![b].moved = @ + Credited(b, g), ![b].got = @ + Given(b, g)]
  /\ UNCHANGED outcome

\* The window throws with part of a request moved: no room for the rest, or
\* a click the server refused.  The throw is nobody's to catch.
Throws(b) ==
  /\ verb[b].stage = "move"
  /\ verb[b].kind = "retrieve" => ~PackFull(b)
  /\ \E g \in Goods, m \in 0..MaxAsk :
       /\ DeepestNext(b, g) /\ m < Given(b, g) /\ m <= Room(b)
       /\ Transfer(b, g, m)
       /\ verb' = [verb EXCEPT ![b] = NoVerb]
       /\ outcome' = [outcome EXCEPT ![b] = [how |-> "INTERNAL", count |-> verb[b].count,
                                       total |-> 0, got |-> verb[b].got + m]]

\* The pack is full before the next request: what was taken is kept.
FillsUp(b) ==
  /\ verb[b].stage = "move" /\ verb[b].kind = "retrieve" /\ verb[b].todo # {} /\ PackFull(b)
  /\ Tells(b, "INVENTORY_FULL")
  /\ UNCHANGED <<chest, packs>>

VerbEnds(b) ==
  /\ verb[b].stage = "move" /\ verb[b].todo = {}
  /\ Tells(b, IF verb[b].moved > 0 THEN "ok"
              ELSE IF verb[b].kind = "retrieve" THEN "TARGET_NOT_FOUND" ELSE "MISSING_MATERIALS")
  /\ UNCHANGED <<chest, packs>>

StoreInit ==
  /\ chest \in [Goods -> 0..Stock] /\ packs \in [Body -> [Goods -> 0..Stock]]
  /\ \A g \in Goods : chest[g] + TotalOver([b \in Body |-> packs[b][g]], Body) <= Stock
  /\ Total(chest) <= ChestRoom /\ \A b \in Body : Total(packs[b]) <= PackRoom
  /\ verb = [b \in Body |-> NoVerb] /\ outcome = [b \in Body |-> Untold]

StoreNext == \E b \in Body : \/ Retrieve(b) \/ Looks(b) \/ Store(b) \/ ApproachFails(b)
                             \/ Moves(b) \/ Throws(b) \/ FillsUp(b) \/ VerbEnds(b)

-----------------------------------------------------------------------------
(* Properties. *)

StoreTypeOK ==
  /\ chest \in [Goods -> Nat] /\ packs \in [Body -> [Goods -> Nat]]
  /\ \A b \in Body : /\ verb[b].stage \in {"none", "look", "move"} /\ verb[b].plan \in [Goods -> Nat]
                     /\ verb[b].todo \subseteq Goods

\* count is a total across the family: a verb never moves more than it was
\* asked to, whoever else is at the chest; what it says it moved, it moved; and
\* one that is refused for want of the goods, the chest or the way has moved
\* nothing.
MovesWhatItTells ==
  \A b \in Body : outcome[b].how # "none" =>
    /\ outcome[b].got <= outcome[b].count
    /\ outcome[b].how = "ok" => outcome[b].total = outcome[b].got
    /\ outcome[b].how \in {"TARGET_NOT_FOUND", "MISSING_MATERIALS", "PATH_NOT_FOUND", "CONTAINER_NOT_FOUND"}
         => outcome[b].got = 0
=============================================================================
