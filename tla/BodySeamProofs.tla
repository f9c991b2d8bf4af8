--------------------------- MODULE BodySeamProofs ---------------------------
(* For any number of deaths, reconnects and commands, and any debounce: the *)
(* body never has two drivers, and no body recovers from what an earlier one *)
(* was in.                                                                  *)
EXTENDS BodySeam, TLAPS

(* OneDriver with the shape of a flight: changing a field of the one flight  *)
(* there is keeps its reflex only because a flight is a record.             *)
DriverInv == flights \subseteq Flight /\ OneDriver

(* A claim made when the seam is free is the only one.                      *)
LEMMA ClaimIsFirst ==
  ASSUME NEW reflex \in Reflex, NEW phase \in {"equip", "run"},
         DriverInv, busy = "none", Claim(reflex, phase), UNCHANGED command
  PROVE DriverInv'
<1> DEFINE f == [reflex |-> reflex, phase |-> phase, own |-> TRUE, current |-> TRUE]
<1>1. flights = {} /\ ~command
  BY DEF DriverInv, OneDriver, Reflex, Flight
<1>2. f \in Flight /\ f.reflex = reflex
  BY DEF Flight
<1>3. flights' = {f} /\ busy' = reflex /\ ~command'
  BY <1>1 DEF Claim
<1> QED
  BY <1>2, <1>3 DEF DriverInv, OneDriver

(* The flight that ends was the only one and the seam was its own.          *)
LEMMA ReleaseIsLast ==
  ASSUME DriverInv, NEW f \in flights, Release(f), UNCHANGED command
  PROVE DriverInv'
<1>1. flights = {f} /\ ~command
  BY DEF DriverInv, OneDriver
<1> QED
  BY <1>1 DEF Release, DriverInv, OneDriver

(* Flights that only age, or change phase, are the same flights.            *)
LEMMA AgingKeepsDriver ==
  ASSUME DriverInv, NEW later \in [Flight -> Flight], \A f \in Flight : later[f].reflex = f.reflex,
         flights' = {later[f] : f \in flights}, UNCHANGED <<busy, command>>
  PROVE DriverInv'
<1>1. CASE flights = {}
  <2>1. flights' = {}
    BY <1>1
  <2> QED
    BY <1>1, <2>1 DEF DriverInv, OneDriver
<1>2. CASE flights # {}
  <2>1. PICK f \in flights : flights = {f} /\ busy = f.reflex /\ ~command
    BY <1>2 DEF DriverInv, OneDriver
  <2>2. f \in Flight
    BY <2>1 DEF DriverInv
  <2>3. flights' = {later[f]} /\ busy' = later[f].reflex /\ later[f] \in Flight /\ ~command'
    BY <2>1, <2>2
  <2> QED
    BY <2>3 DEF DriverInv, OneDriver
<1> QED
  BY <1>1, <1>2

LEMMA NextDriver ==
  ASSUME DriverInv, [Next]_vars
  PROVE DriverInv'
<1>1. CASE CommandStarts
  BY <1>1 DEF CommandStarts, DriverInv, OneDriver, Reflex, Flight
<1>2. CASE CommandEnds
  BY <1>2 DEF CommandEnds, DriverInv, OneDriver
<1>3. CASE EscapeBegins
  BY <1>3, ClaimIsFirst DEF EscapeBegins, Reflex
<1>4. CASE ManeuverBegins
  <2>1. PICK phase \in {"equip", "run"} : Claim("combat", phase)
    BY <1>4 DEF ManeuverBegins
  <2> QED
    BY <1>4, <2>1, ClaimIsFirst DEF ManeuverBegins, Reflex
<1>5. CASE MealBegins
  BY <1>5, ClaimIsFirst DEF MealBegins, Reflex
<1>6. ASSUME NEW f \in flights, EscapeEnds(f) \/ ManeuverEnds(f) \/ MealEnds(f)
      PROVE DriverInv'
  BY <1>6, ReleaseIsLast DEF EscapeEnds, ManeuverEnds, MealEnds
<1>7. ASSUME NEW f \in flights, Draws(f)
      PROVE DriverInv'
  <2>1. flights = {f} /\ busy = f.reflex /\ ~command /\ f \in Flight
    BY DEF DriverInv, OneDriver
  <2> DEFINE g == [f EXCEPT !.phase = "run"]
  <2>2. g \in Flight /\ g.reflex = f.reflex
    BY <2>1 DEF Flight
  <2>3. flights' = {g} /\ busy' = busy /\ command' = command
    BY <1>7, <2>1 DEF Draws
  <2> QED
    BY <2>1, <2>2, <2>3 DEF DriverInv, OneDriver
<1>8. CASE Respawns
  <2> DEFINE later == [f \in Flight |-> [f EXCEPT !.current = FALSE]]
  <2>1. later \in [Flight -> Flight] /\ \A f \in Flight : later[f].reflex = f.reflex
    BY DEF Flight
  <2>2. flights' = {later[f] : f \in flights} /\ UNCHANGED <<busy, command>>
    BY <1>8 DEF Respawns, DriverInv
  <2> HIDE DEF later
  <2> QED
    BY <2>1, <2>2, AgingKeepsDriver
<1>9. CASE Reconnects
  <2> DEFINE later == [f \in Flight |-> [f EXCEPT !.own = FALSE, !.current = FALSE]]
  <2>1. later \in [Flight -> Flight] /\ \A f \in Flight : later[f].reflex = f.reflex
    BY DEF Flight
  <2>2. flights' = {later[f] : f \in flights} /\ UNCHANGED <<busy, command>>
    BY <1>9 DEF Reconnects, DriverInv
  <2> HIDE DEF later
  <2> QED
    BY <2>1, <2>2, AgingKeepsDriver
<1>10. ASSUME UNCHANGED <<busy, command, flights>>
       PROVE DriverInv'
  BY <1>10 DEF DriverInv, OneDriver
<1>11. CASE HazardDebounces \/ HazardCloses \/ ThreatDebounces \/ ThreatClears \/ ThreatWaits \/ EatPasses
  BY <1>10, <1>11 DEF HazardDebounces, HazardCloses, ThreatDebounces, ThreatClears, ThreatWaits, EatPasses, NoClaim
<1>12. CASE WorldTurns \/ Dies \/ Drops \/ UNCHANGED vars
  BY <1>10, <1>12 DEF WorldTurns, Dies, Drops, vars
<1> QED
  BY <1>1, <1>2, <1>3, <1>4, <1>5, <1>6, <1>7, <1>8, <1>9, <1>11, <1>12 DEF Next

(* The body never has two drivers: a claimant that lost its body or its      *)
(* watcher keeps the seam until its own finally, and nobody claims over it   *)
(* (BotSession.busy and the claimants' checks of it).                       *)
THEOREM BodyHasOneDriver == Spec => []OneDriver
<1>1. Init => DriverInv
  BY DEF Init, DriverInv, OneDriver
<1>2. DriverInv /\ [Next]_vars => DriverInv'
  BY NextDriver
<1>3. DriverInv => OneDriver
  BY DEF DriverInv
<1> QED
  BY <1>1, <1>2, <1>3, PTL DEF Spec

-----------------------------------------------------------------------------
(* The counts stay in their ranges.                                         *)
LEMMA Bounds ==
  /\ 0 \in 0..(HitsToOpen - 1) /\ 0 \in 0..(ClearPasses - 1)
  /\ 0 \in 0..HelplessAfter /\ HelplessAfter \in 0..HelplessAfter
  /\ \A n \in 0..(HitsToOpen - 1) : n + 1 < HitsToOpen => n + 1 \in 0..(HitsToOpen - 1)
  /\ \A n \in 0..(ClearPasses - 1) : n + 1 < ClearPasses => n + 1 \in 0..(ClearPasses - 1)
  /\ \A n \in 0..HelplessAfter : n + 1 < HelplessAfter => n + 1 \in 0..HelplessAfter
  /\ \A n \in 0..MaxDeaths : n > 0 => n - 1 \in 0..MaxDeaths
  /\ \A n \in 0..MaxDrops : n > 0 => n - 1 \in 0..MaxDrops
  /\ \A n \in 0..MaxCommands : n > 0 => n - 1 \in 0..MaxCommands
  /\ MaxDeaths \in 0..MaxDeaths /\ MaxDrops \in 0..MaxDrops /\ MaxCommands \in 0..MaxCommands
BY BodyAssumption

(* TypeOK with a name for the type of each record.                          *)
HazardType == [hits : 0..(HitsToOpen - 1), open : BOOLEAN, inFlight : BOOLEAN]
ThreatType == [hits : 0..(HitsToOpen - 1), episode : {"none", "current", "stale"},
               clear : 0..(ClearPasses - 1), inFlight : BOOLEAN]
EatingType == [crisis : {"none", "current", "stale"}, failures : 0..HelplessAfter, inFlight : BOOLEAN]
BodyType   == [up : BOOLEAN, dead : BOOLEAN, snow : BOOLEAN, foe : BOOLEAN, food : {Starving, Peckish, Fed}]
StoryType  == [{"powder_snow", "threat", "starvation"} -> {"quiet", "told", "late", "lie"}]
LeftType   == [deaths : 0..MaxDeaths, drops : 0..MaxDrops, commands : 0..MaxCommands]

SeamType == busy \in Reflex \union {"none", "action"} /\ command \in BOOLEAN /\ flights \subseteq Flight

Typed ==
  /\ SeamType /\ hazard \in HazardType /\ threat \in ThreatType /\ eating \in EatingType
  /\ body \in BodyType /\ story \in StoryType /\ left \in LeftType

LEMMA TypedIsTypeOK == Typed <=> TypeOK
BY DEF Typed, TypeOK, SeamType, HazardType, ThreatType, EatingType, BodyType, StoryType, LeftType

LEMMA ClaimTyped ==
  ASSUME SeamType, NEW reflex \in Reflex, NEW phase \in {"equip", "run"},
         Claim(reflex, phase), UNCHANGED command
  PROVE SeamType'
<1>1. [reflex |-> reflex, phase |-> phase, own |-> TRUE, current |-> TRUE] \in Flight
  BY DEF Flight
<1> QED
  BY <1>1 DEF SeamType, Claim

LEMMA ReleaseTyped ==
  ASSUME SeamType, NEW f \in flights, Release(f), UNCHANGED command
  PROVE SeamType'
BY DEF SeamType, Release

LEMMA StoryTyped ==
  ASSUME story \in StoryType, NEW type \in {"powder_snow", "threat", "starvation"},
         Opens(type) \/ Recovers(type)
  PROVE story' \in StoryType
BY DEF StoryType, Opens, Recovers

LEMMA HelplessTyped ==
  ASSUME Typed, NEW e \in EatingType, Helpless(e) \/ AteBack(e)
  PROVE eating' \in EatingType /\ story' \in StoryType
<1>1. eating' \in EatingType
  BY Bounds DEF Helpless, AteBack, EatingType
<1>2. story' \in StoryType
  BY StoryTyped DEF Helpless, AteBack, Typed
<1> QED
  BY <1>1, <1>2

LEMMA CommandTyped ==
  ASSUME Typed, CommandStarts \/ CommandEnds
  PROVE Typed'
<1>1. left' \in LeftType
  BY Bounds DEF CommandStarts, CommandEnds, Typed, LeftType
<1>2. SeamType'
  BY DEF CommandStarts, CommandEnds, Typed, SeamType
<1> QED
  BY <1>1, <1>2 DEF CommandStarts, CommandEnds, Typed

LEMMA HazardTyped ==
  ASSUME Typed, HazardDebounces \/ EscapeBegins \/ HazardCloses \/ \E f \in flights : EscapeEnds(f)
  PROVE Typed'
<1>1. hazard' \in HazardType
  <2>1. CASE HazardDebounces
    BY <2>1, Bounds DEF HazardDebounces, Typed, HazardType
  <2>2. CASE EscapeBegins
    BY <2>2, Bounds DEF EscapeBegins, HazardType
  <2>3. CASE HazardCloses
    BY <2>3 DEF HazardCloses, Typed, HazardType
  <2>4. ASSUME NEW f \in flights, EscapeEnds(f) PROVE hazard' \in HazardType
    <3>1. NewHazard \in HazardType /\ [hazard EXCEPT !.inFlight = FALSE] \in HazardType
      BY Bounds DEF NewHazard, HazardType, Typed
    <3> QED
      BY <2>4, <3>1 DEF EscapeEnds, Typed
  <2> QED
    BY <2>1, <2>2, <2>3, <2>4
<1>2. story' \in StoryType
  BY StoryTyped DEF HazardDebounces, EscapeBegins, HazardCloses, EscapeEnds, Typed
<1>3. body' \in BodyType
  BY DEF HazardDebounces, EscapeBegins, HazardCloses, EscapeEnds, Typed, BodyType
<1>4. SeamType'
  BY ClaimTyped, ReleaseTyped
     DEF HazardDebounces, EscapeBegins, HazardCloses, EscapeEnds, NoClaim, Typed, Reflex, SeamType
<1> QED
  BY <1>1, <1>2, <1>3, <1>4 DEF HazardDebounces, EscapeBegins, HazardCloses, EscapeEnds, Typed

LEMMA ThreatTyped ==
  ASSUME Typed, ThreatDebounces \/ ThreatClears \/ ThreatWaits \/ ManeuverBegins
                \/ \E f \in flights : Draws(f) \/ ManeuverEnds(f)
  PROVE Typed'
<1>1. Honest \in ThreatType
  BY DEF Honest, Typed, ThreatType
<1>2. threat' \in ThreatType
  <2>1. CASE ThreatDebounces
    BY <1>1, <2>1, Bounds DEF ThreatDebounces, ThreatType
  <2>2. CASE ThreatClears
    BY <2>2, Bounds DEF ThreatClears, ThreatType, Typed
  <2>3. CASE ThreatWaits \/ ManeuverBegins \/ \E f \in flights : Draws(f) \/ ManeuverEnds(f)
    BY <2>3, Bounds DEF ThreatWaits, ManeuverBegins, Draws, ManeuverEnds, ThreatType, Typed
  <2> QED
    BY <2>1, <2>2, <2>3
<1>3. story' \in StoryType
  BY StoryTyped DEF ThreatDebounces, ThreatClears, ThreatWaits, ManeuverBegins, Draws, ManeuverEnds, Typed
<1>4. SeamType'
  <2>1. CASE ThreatDebounces \/ ThreatClears \/ ThreatWaits
    BY <2>1 DEF ThreatDebounces, ThreatClears, ThreatWaits, NoClaim, Typed, SeamType
  <2>2. CASE ManeuverBegins
    BY <2>2, ClaimTyped DEF ManeuverBegins, Typed, Reflex
  <2>3. ASSUME NEW f \in flights, Draws(f) PROVE SeamType'
    BY <2>3 DEF Draws, Typed, SeamType, Flight
  <2>4. ASSUME NEW f \in flights, ManeuverEnds(f) PROVE SeamType'
    BY <2>4, ReleaseTyped DEF ManeuverEnds, Typed
  <2> QED
    BY <2>1, <2>2, <2>3, <2>4
<1> QED
  BY <1>2, <1>3, <1>4
     DEF ThreatDebounces, ThreatClears, ThreatWaits, ManeuverBegins, Draws, ManeuverEnds, Typed

LEMMA EatingTyped ==
  ASSUME Typed, EatPasses \/ MealBegins \/ \E f \in flights : MealEnds(f)
  PROVE Typed'
<1>1. Awake \in EatingType
  BY Bounds DEF Awake, Typed, EatingType
<1>2. CASE EatPasses
  <2>1. eating' \in EatingType /\ story' \in StoryType
    BY <1>1, <1>2, HelplessTyped DEF EatPasses, Typed
  <2> QED
    BY <1>2, <2>1 DEF EatPasses, NoClaim, Typed, SeamType
<1>3. CASE MealBegins
  <2>1. eating' \in EatingType
    BY <1>1, <1>3, Bounds DEF MealBegins, NewEating, EatingType
  <2>2. story' \in StoryType
    BY <1>3, StoryTyped DEF MealBegins, Typed
  <2>3. SeamType'
    BY <1>3, ClaimTyped DEF MealBegins, Typed, Reflex
  <2> QED
    BY <1>3, <2>1, <2>2, <2>3 DEF MealBegins, Typed
<1>4. ASSUME NEW f \in flights, MealEnds(f)
      PROVE Typed'
  <2> DEFINE idle == [eating EXCEPT !.inFlight = FALSE]
  <2>1. idle \in EatingType
    BY DEF Typed, EatingType
  <2>2. [idle EXCEPT !.failures = HelplessAfter] \in EatingType /\ [idle EXCEPT !.failures = 0] \in EatingType
    BY <2>1, Bounds DEF EatingType
  <2>3. idle.failures + 1 < HelplessAfter => [idle EXCEPT !.failures = @ + 1] \in EatingType
    BY <2>1, Bounds DEF EatingType
  <2>4. idle.failures = eating.failures
    BY DEF Typed, EatingType
  <2> HIDE DEF idle
  <2>5. Ate(f) /\ Release(f)
    BY <1>4 DEF MealEnds
  <2>6. eating' \in EatingType /\ story' \in StoryType
    BY <2>1, <2>2, <2>3, <2>4, <2>5, HelplessTyped DEF Ate, idle, Typed
  <2>7. body' \in BodyType
    BY <2>5 DEF Ate, Typed, BodyType, Starving, Peckish, Fed
  <2>8. SeamType'
    BY <1>4, <2>5, ReleaseTyped DEF MealEnds, Typed
  <2> QED
    BY <1>4, <2>6, <2>7, <2>8 DEF MealEnds, Typed
<1> QED
  BY <1>2, <1>3, <1>4

LEMMA FreshWatchers == NewHazard \in HazardType /\ NewThreat \in ThreatType /\ NewEating \in EatingType
BY Bounds DEF NewHazard, NewThreat, NewEating, HazardType, ThreatType, EatingType

LEMMA WorldTyped ==
  ASSUME Typed, WorldTurns \/ Dies \/ Respawns \/ Drops \/ Reconnects
  PROVE Typed'
<1>1. CASE WorldTurns
  <2>1. body' \in BodyType
    <3>1. ASSUME NEW snow \in BOOLEAN, NEW foe \in BOOLEAN
          PROVE [body EXCEPT !.snow = snow, !.foe = foe] \in BodyType
      BY DEF Typed, BodyType
    <3>2. body.food # Starving => [body EXCEPT !.food = @ - 1] \in BodyType
      BY DEF Typed, BodyType, Starving, Peckish, Fed
    <3> QED
      BY <1>1, <3>1, <3>2 DEF WorldTurns
  <2> QED
    BY <1>1, <2>1 DEF WorldTurns, Typed, SeamType
<1>2. CASE Respawns
  <2>1. body' \in BodyType
    BY <1>2 DEF Respawns, BodyType
  <2>3. threat' \in ThreatType
    BY <1>2 DEF Respawns, Typed, ThreatType, Aged
  <2>4. eating' \in EatingType
    BY <1>2 DEF Respawns, Typed, EatingType, Aged
  <2>5. story' \in StoryType
    BY <1>2 DEF Respawns, Typed, StoryType, NewStory
  <2>6. SeamType'
    <3>1. \A f \in Flight : [f EXCEPT !.current = FALSE] \in Flight
      BY DEF Flight
    <3> QED
      BY <1>2, <3>1 DEF Respawns, Typed, SeamType
  <2> QED
    BY <1>2, <2>1, <2>3, <2>4, <2>5, <2>6 DEF Respawns, Typed
<1>3. CASE Drops
  <2>1. body' \in BodyType
    BY <1>3 DEF Drops, Typed, BodyType
  <2>2. left' \in LeftType
    BY <1>3, Bounds DEF Drops, Typed, LeftType
  <2> QED
    BY <1>3, <2>1, <2>2 DEF Drops, Typed, SeamType
<1>4. CASE Reconnects
  <2>1. body' \in BodyType
    <3>1. ASSUME NEW snow \in BOOLEAN, NEW foe \in BOOLEAN
          PROVE [body EXCEPT !.up = TRUE, !.dead = FALSE, !.snow = snow, !.foe = foe] \in BodyType
      BY DEF Typed, BodyType
    <3> QED
      BY <1>4, <3>1 DEF Reconnects
  <2>2. story' \in StoryType
    BY <1>4 DEF Reconnects, Typed, StoryType, NewStory
  <2>3. SeamType'
    <3>1. \A f \in Flight : [f EXCEPT !.own = FALSE, !.current = FALSE] \in Flight
      BY DEF Flight
    <3> QED
      BY <1>4, <3>1 DEF Reconnects, Typed, SeamType
  <2> QED
    BY <1>4, <2>1, <2>2, <2>3, FreshWatchers DEF Reconnects, Typed
<1>5. CASE Dies
  <2>1. body' \in BodyType
    BY <1>5 DEF Dies, Typed, BodyType
  <2>2. left' \in LeftType
    BY <1>5, Bounds DEF Dies, Typed, LeftType
  <2> QED
    BY <1>5, <2>1, <2>2 DEF Dies, Typed, SeamType
<1> QED
  BY <1>1, <1>2, <1>3, <1>4, <1>5

LEMMA NextType ==
  ASSUME Typed, [Next]_vars
  PROVE Typed'
<1>1. CASE UNCHANGED vars
  BY <1>1 DEF vars, Typed, SeamType
<1> QED
  BY <1>1, CommandTyped, HazardTyped, ThreatTyped, EatingTyped, WorldTyped DEF Next

(* The watchers' records, the seam and the flights keep their types.        *)
THEOREM BodyTypes == Spec => []TypeOK
<1>1. Init => Typed
  <2> SUFFICES ASSUME Init PROVE Typed
    OBVIOUS
  <2>1. body \in BodyType
    BY DEF Init, BodyType
  <2>2. left \in LeftType
    BY Bounds DEF Init, LeftType
  <2> QED
    BY <2>1, <2>2, FreshWatchers DEF Init, Typed, StoryType, SeamType
<1>2. Typed /\ [Next]_vars => Typed'
  BY NextType
<1> QED
  BY <1>1, <1>2, TypedIsTypeOK, PTL DEF Spec

-----------------------------------------------------------------------------
(* What lets a watcher speak of a recovery: an episode it holds of this      *)
(* generation is one this generation was told of.                           *)
StoryInv ==
  /\ DOMAIN story = {"powder_snow", "threat", "starvation"}
  /\ threat.episode = "current" => story["threat"] = "told"
  /\ eating.crisis = "current" => story["starvation"] = "told"
  /\ RecoveriesAreReal

Types == {"powder_snow", "threat", "starvation"}

(* Telling of an episode touches only its own story, and is no lie.         *)
LEMMA OpensStory ==
  ASSUME DOMAIN story = Types, NEW t \in Types, Opens(t)
  PROVE /\ DOMAIN story' = Types
        /\ \A u \in Types \ {t} : story'[u] = story[u]
        /\ story[t] # "lie" => story'[t] = "told"
BY DEF Opens

(* A recovery touches only its own story, and is no lie if it was told.     *)
LEMMA RecoversStory ==
  ASSUME DOMAIN story = Types, NEW t \in Types, Recovers(t)
  PROVE /\ DOMAIN story' = Types
        /\ \A u \in Types \ {t} : story'[u] = story[u]
        /\ story[t] = "told" => story'[t] # "lie"
BY DEF Recovers

(* An action about another episode leaves this part of the story alone.     *)
LEMMA NextStory ==
  ASSUME StoryInv, TypeOK, [Next]_vars
  PROVE StoryInv'
<1> USE DEF StoryInv, RecoveriesAreReal
<1>1. CASE HazardDebounces \/ EscapeBegins
  BY <1>1 DEF HazardDebounces, EscapeBegins, Opens
<1>2. CASE HazardCloses
  BY <1>2 DEF HazardCloses, Recovers
<1>3. ASSUME NEW f \in flights, EscapeEnds(f)
      PROVE StoryInv'
  BY <1>3 DEF EscapeEnds, Recovers
<1>t. DOMAIN story = Types /\ "threat" \in Types /\ "starvation" \in Types
  BY DEF Types
<1>4. CASE ThreatDebounces
  <2>0. Honest.episode = "none" /\ \A n \in Nat : [Honest EXCEPT !.hits = n].episode = "none"
    BY <1>4 DEF ThreatDebounces, Honest, TypeOK
  <2>1. UNCHANGED eating /\ (Opens("threat") \/ (UNCHANGED story /\ threat'.episode = "none"))
    <3>1. Honest.hits + 1 \in Nat
      <4>1. threat.hits \in Nat
        BY DEF TypeOK
      <4>2. Honest.hits = threat.hits
        BY DEF Honest, TypeOK
      <4> QED BY <4>1, <4>2
    <3>2. \/ \E n \in Nat : threat' = [Honest EXCEPT !.hits = n] /\ UNCHANGED story
          \/ Opens("threat")
      BY <1>4, <3>1 DEF ThreatDebounces
    <3>3. UNCHANGED eating
      BY <1>4 DEF ThreatDebounces
    <3> HIDE DEF StoryInv, RecoveriesAreReal
    <3>4. CASE Opens("threat")
      BY <3>3, <3>4
    <3>5. ASSUME NEW n \in Nat, threat' = [Honest EXCEPT !.hits = n]
          PROVE threat'.episode = "none"
      BY <2>0, <3>5
    <3> QED BY <3>2, <3>3, <3>4, <3>5
  <2>2. CASE Opens("threat")
    BY <1>t, <2>1, <2>2, OpensStory DEF Types
  <2>3. CASE UNCHANGED story /\ threat'.episode = "none"
    BY <2>1, <2>3
  <2> QED BY <2>1, <2>2, <2>3
<1>5. CASE ThreatClears
  <2>1. UNCHANGED eating /\ threat.episode = "current"
    BY <1>5 DEF ThreatClears
  <2>2. CASE UNCHANGED story
    BY <2>1, <2>2
  <2>3. CASE ~UNCHANGED story
    <3>1. threat'.episode = "none" /\ Recovers("threat")
      BY <1>5, <2>3 DEF ThreatClears, TypeOK
    <3> QED BY <1>t, <2>1, <3>1, RecoversStory DEF Types
  <2> QED BY <2>2, <2>3
<1>6. CASE ThreatWaits \/ ManeuverBegins
  BY <1>6 DEF ThreatWaits, ManeuverBegins, TypeOK
<1>7. ASSUME NEW f \in flights, ManeuverEnds(f) \/ Draws(f)
      PROVE StoryInv'
  BY <1>7 DEF ManeuverEnds, Draws, TypeOK
<1>8. CASE EatPasses
  <2>1. UNCHANGED threat
    BY <1>8 DEF EatPasses
  <2>a. eating \in [crisis : {"none", "current", "stale"}, failures : 0..HelplessAfter, inFlight : BOOLEAN]
    BY DEF TypeOK
  <2>2. Awake.crisis = "current" => eating.crisis = "current"
    BY <2>a DEF Awake
  <2>3. CASE Awake.crisis = "current" /\ AteBack(Awake)
    <3>1. eating'.crisis = "none" /\ Recovers("starvation")
      BY <2>3, <2>a DEF AteBack, Awake
    <3> QED BY <1>t, <2>1, <2>2, <2>3, <3>1, RecoversStory DEF Types
  <2>4. CASE eating' = Awake /\ UNCHANGED story
    BY <2>1, <2>2, <2>4
  <2>5. CASE Opens("starvation")
    BY <1>t, <2>1, <2>5, OpensStory DEF Types
  <2> QED BY <1>8, <2>3, <2>4, <2>5 DEF EatPasses, Helpless
<1>9. CASE MealBegins
  <2>1. UNCHANGED threat
    BY <1>9 DEF MealBegins
  <2>a. eating \in [crisis : {"none", "current", "stale"}, failures : 0..HelplessAfter, inFlight : BOOLEAN]
    BY DEF TypeOK
  <2>2. Awake.crisis = "current" => eating.crisis = "current"
    BY <2>a DEF Awake
  <2>3. CASE Awake.crisis = "current" /\ Recovers("starvation") /\ eating' = [NewEating EXCEPT !.inFlight = TRUE]
    <3>1. eating'.crisis = "none"
      BY <2>3 DEF NewEating
    <3> QED BY <1>t, <2>1, <2>2, <2>3, <3>1, RecoversStory DEF Types
  <2>4. CASE UNCHANGED story /\ eating' = [Awake EXCEPT !.inFlight = TRUE]
    <3>1. eating'.crisis = Awake.crisis
      BY <2>4, <2>a DEF Awake
    <3> QED BY <2>1, <2>2, <2>4, <3>1
  <2> QED BY <1>9, <2>3, <2>4 DEF MealBegins
<1>10. ASSUME NEW f \in flights, MealEnds(f)
       PROVE StoryInv'
  <2>1. CASE ~f.current
    BY <1>10, <2>1 DEF MealEnds, Ate, TypeOK
  <2>2. CASE f.current
    <3> DEFINE idle == [eating EXCEPT !.inFlight = FALSE]
    <3>1. UNCHANGED threat
      BY <1>10 DEF MealEnds
    <3>a. eating \in [crisis : {"none", "current", "stale"}, failures : 0..HelplessAfter, inFlight : BOOLEAN]
      BY DEF TypeOK
    <3>2. CASE AteBack(idle) /\ eating.crisis = "current"
      <4>1. eating'.crisis = "none" /\ Recovers("starvation")
        BY <3>2, <3>a DEF AteBack
      <4> QED BY <1>t, <3>1, <3>2, <4>1, RecoversStory DEF Types
    <3>3. CASE Opens("starvation")
      BY <1>t, <3>1, <3>3, OpensStory DEF Types
    <3>4. CASE UNCHANGED story /\ eating'.crisis = eating.crisis
      BY <3>1, <3>4
    <3>5. ASSUME UNCHANGED story, NEW n, eating' = [idle EXCEPT !.failures = n] PROVE StoryInv'
      BY <3>4, <3>5, <3>a
    <3>6. ASSUME Helpless([idle EXCEPT !.failures = HelplessAfter]) PROVE StoryInv'
      BY <3>3, <3>5, <3>6 DEF Helpless
    <3>7. ASSUME eating' = idle, UNCHANGED story PROVE StoryInv'
      BY <3>4, <3>7, <3>a
    <3>8. ASSUME UNCHANGED <<eating, story>> PROVE StoryInv'
      BY <3>4, <3>8
    <3> HIDE DEF idle, StoryInv
    <3>9. Ate(f)
      BY <1>10 DEF MealEnds
    <3> QED BY <2>2, <3>2, <3>5, <3>6, <3>7, <3>8, <3>9 DEF Ate, idle
  <2> QED
    BY <2>1, <2>2
<1>11. CASE Respawns
  BY <1>11 DEF Respawns, NewStory, Aged, TypeOK
<1>12. CASE Reconnects
  BY <1>12 DEF Reconnects, NewStory, NewThreat, NewEating
<1>13. CASE CommandStarts \/ CommandEnds \/ WorldTurns \/ Dies \/ Drops \/ UNCHANGED vars
  BY <1>13 DEF CommandStarts, CommandEnds, WorldTurns, Dies, Drops, vars
<1> QED
  BY <1>1, <1>2, <1>3, <1>4, <1>5, <1>6, <1>7, <1>8, <1>9, <1>10, <1>11, <1>12, <1>13 DEF Next

(* No spawned body closes the episode of the one that died: the generation   *)
(* checks of ThreatWatcher.check, EatWatcher.check and runAttempt are        *)
(* enough for that, across deaths, passes over the dead body, reconnects and *)
(* late answers.                                                            *)
THEOREM OnlyRealRecoveries == Spec => []RecoveriesAreReal
<1>1. Init => StoryInv
  BY DEF Init, StoryInv, RecoveriesAreReal, NewThreat, NewEating
<1>2. StoryInv /\ TypeOK /\ [Next]_vars => StoryInv'
  BY NextStory
<1>3. StoryInv => RecoveriesAreReal
  BY DEF StoryInv
<1> QED
  BY <1>1, <1>2, <1>3, BodyTypes, PTL DEF Spec
=============================================================================
